---------------------------- MODULE Spec2Model ----------------------------
(***************************************************************************)
(* A model of scripts/metric.py, the compiler that turns a metric          *)
(* description (parameters, a decode body, a post body) into C code woven  *)
(* into a template.                                                        *)
(*                                                                         *)
(* Text is modelled character by character: a string is a sequence of      *)
(* one-character strings, a line read from a file ends with "\n", and the  *)
(* empty sequence is what readline() returns at end of file.  The          *)
(* tokenizer, the declaration parser, the leveliser, the propagation pass  *)
(* and the emitter are operators over such text, computed as the code      *)
(* computes them.  The fields `comment' and `ex' of a Decl are read only   *)
(* by --help and --debug dumps and are left out of the record.             *)
(*                                                                         *)
(* What the program prints is kept in three logs by kind: `errors' (the    *)
(* #line/#error pairs and the other diagnostics), `header' (the generated  *)
(* header comment) and `out' (the woven template body).                    *)
(***************************************************************************)
EXTENDS Integers, Sequences, FiniteSets, TLC

(***************************************************************************)
(* Python string and list primitives                                       *)
(***************************************************************************)

Min(a, b) == IF a < b THEN a ELSE b

Max(a, b) == IF a > b THEN a ELSE b

\* str.isspace() of one character
isspace(c) == c \in {" ", "\t", "\n", "\r", "\f"}

\* s[a:b] for a >= 0; a negative b counts from the end, as in Python
Slice(s, a, b) ==
  LET e == IF b < 0 THEN Max(Len(s) + b, 0) ELSE Min(b, Len(s))
  IN  IF a + 1 > e THEN <<>> ELSE SubSeq(s, a + 1, e)

\* s[a:]
SliceFrom(s, a) == Slice(s, a, Len(s))

\* s.find(sub): the 0-based index of the first occurrence, or -1
find(s, sub) ==
  LET hits == { i \in 1..(Len(s) - Len(sub) + 1) :
                  SubSeq(s, i, i + Len(sub) - 1) = sub }
  IN  IF hits = {} THEN -1
      ELSE (CHOOSE i \in hits : \A j \in hits : i <= j) - 1

RECURSIVE lstrip(_)
lstrip(s) == IF Len(s) > 0 /\ isspace(s[1]) THEN lstrip(Tail(s)) ELSE s

RECURSIVE rstrip(_)
rstrip(s) ==
  IF Len(s) > 0 /\ isspace(s[Len(s)]) THEN rstrip(SubSeq(s, 1, Len(s) - 1))
  ELSE s

strip(s) == lstrip(rstrip(s))

\* s.split(): the maximal runs of non-whitespace characters
RECURSIVE split(_)
split(s) ==
  LET t == lstrip(s)
      n == IF \E i \in 1..Len(t) : isspace(t[i])
           THEN (CHOOSE i \in 1..Len(t) :
                   isspace(t[i]) /\ \A j \in 1..(i - 1) : ~isspace(t[j])) - 1
           ELSE Len(t)
  IN  IF Len(t) = 0 THEN <<>>
      ELSE <<SubSeq(t, 1, n)>> \o split(SubSeq(t, n + 1, Len(t)))

\* s.split(sep) for a one-character separator
RECURSIVE splitOn(_, _)
splitOn(s, sep) ==
  LET p == find(s, <<sep>>)
  IN  IF p < 0 THEN <<s>>
      ELSE <<Slice(s, 0, p)>> \o splitOn(SliceFrom(s, p + 1), sep)

\* the concatenation of a list of strings
RECURSIVE Flatten(_)
Flatten(ss) == IF ss = <<>> THEN <<>> ELSE Head(ss) \o Flatten(Tail(ss))

\* n copies of the character c
RECURSIVE Repeat(_, _)
Repeat(c, n) == IF n <= 0 THEN <<>> ELSE <<c>> \o Repeat(c, n - 1)

(***************************************************************************)
(* Tokenizer                                                               *)
(***************************************************************************)

isop(char) ==
  IF char \in {"-", "+", ",", "=", "(", ")", "?", ":", "*", "/", "~", "!",
               "^", "|", "&", "[", "]", "{", "}", "%", "<", ">"}
  THEN 1 ELSE 0

kw_const == <<"c","o","n","s","t">>
kw_union == <<"u","n","i","o","n">>
kw_struct == <<"s","t","r","u","c","t">>

isdecl(word) ==
  IF word \in {<<"f","l","o","a","t">>, <<"d","o","u","b","l","e">>,
               <<"l","o","n","g">>, <<"u","n","s","i","g","n","e","d">>,
               <<"s","i","g","n","e","d">>, kw_const,
               <<"v","o","l","a","t","i","l","e">>, <<"i","n","t">>,
               <<"s","h","o","r","t">>, <<"c","h","a","r">>,
               <<"r","e","g","i","s","t","e","r">>, <<"v","o","i","d">>,
               kw_union, kw_struct, <<"*">>, <<"*","*">>, <<"*","*","*">>,
               <<"*","*","*","*">>}
  THEN 1 ELSE 0

\* the index of the last character of the run that starts at line[i] and is
\* extended while the next character satisfies the branch's loop condition
RECURSIVE spaceRun(_, _)
spaceRun(line, i) ==
  IF i < Len(line) /\ isspace(line[i + 1]) THEN spaceRun(line, i + 1) ELSE i

RECURSIVE opRun(_, _)
opRun(line, i) ==
  IF i < Len(line) /\ isop(line[i + 1]) = 1 THEN opRun(line, i + 1) ELSE i

\* a word run that also takes in terminators
RECURSIVE wordRun_semi(_, _)
wordRun_semi(line, i) ==
  IF i < Len(line) /\ isop(line[i + 1]) = 0 /\ ~isspace(line[i + 1])
  THEN wordRun_semi(line, i + 1) ELSE i

RECURSIVE wordRun(_, _)
wordRun(line, i) ==
  IF i < Len(line) /\ isop(line[i + 1]) = 0 /\ line[i + 1] # ";"
     /\ ~isspace(line[i + 1])
  THEN wordRun(line, i + 1) ELSE i

\* the loop of ctok from the character at (1-based) index i on; `char' of the
\* code is i - 1
RECURSIVE ctokLoop(_, _)
ctokLoop(line, i) ==
  IF i > Len(line) THEN [toks |-> <<>>, chars |-> <<>>]
  ELSE LET c == line[i]
           j == IF isspace(c) THEN spaceRun(line, i)
                ELSE IF isop(c) = 1 THEN opRun(line, i)
                ELSE IF c = ";" THEN i
                ELSE wordRun(line, i)
           rest == ctokLoop(line, j + 1)
       IN  [toks |-> <<SubSeq(line, i, j)>> \o rest.toks,
            chars |-> <<i - 1>> \o rest.chars]

ctok(line) == ctokLoop(line, 1)

\* str.isspace() of a token
tokisspace(tok) == Len(tok) > 0 /\ \A i \in 1..Len(tok) : isspace(tok[i])

\* function to filter whitespace tokens from ctok
ctok_nspace(line) ==
  LET tc == ctok(line)
      keep == SelectSeq([i \in 1..Len(tc.toks) |-> i],
                        LAMBDA i : ~tokisspace(tc.toks[i]))
  IN  [toks |-> [k \in 1..Len(keep) |-> tc.toks[keep[k]]],
       chars |-> [k \in 1..Len(keep) |-> tc.chars[keep[k]]]]

\* get the next non-whitespace token, or nothing if there isn't one
RECURSIVE next_tok(_)
next_tok(toks) ==
  IF Len(toks) > 0 /\ tokisspace(toks[1]) THEN next_tok(Tail(toks)) ELSE toks

(***************************************************************************)
(* Declarations and namespaces                                             *)
(***************************************************************************)

\* class Decl
Decl(lineno, name, type, init, level, macro, fninit, pre, contrib) ==
  [lineno |-> lineno, name |-> name, type |-> type, init |-> init,
   level |-> level, macro |-> macro, fninit |-> fninit, pre |-> pre,
   contrib |-> contrib]

\* one printed "#line <lineno> <file>" / "#error <message>" pair, or another
\* diagnostic the program prints
Report(message, lineno) == [error |-> message, lineno |-> lineno]

\* the leading run of type tokens: `raised' when toks[0] is read from an
\* empty list after a struct or union keyword (IndexError)
RECURSIVE typeLoop(_, _)
typeLoop(type, toks) ==
  IF Len(toks) > 0 /\ isdecl(toks[1]) = 1
  THEN IF toks[1] = kw_struct \/ toks[1] = kw_union
       THEN LET type1 == type \o toks[1] \o <<" ">>
                toks1 == Tail(toks)
            IN  IF Len(toks1) = 0
                THEN [type |-> type1, toks |-> toks1, raised |-> TRUE]
                ELSE typeLoop(type1 \o toks1[1] \o <<" ">>, Tail(toks1))
       ELSE typeLoop(type \o toks[1] \o <<" ">>, Tail(toks))
  ELSE [type |-> type, toks |-> toks, raised |-> FALSE]

\* check for and remove trailing comment: the `#' comment
trailing(line) ==
  LET pos == find(line, <<"#">>)
  IN  IF pos > 0 THEN Slice(line, 0, pos) ELSE line

\* check for and remove trailing comment: the /* */ comment, and whether the
\* "multiline comment in declaration" error is printed
inlinecomment(line) ==
  LET pos == find(line, <<"/","*">>)
      pos2 == find(line, <<"*","/">>)
  IN  [line |-> IF pos > 0 /\ pos2 > 0
                THEN Slice(line, 0, pos) \o SliceFrom(line, pos2 + 2)
                ELSE line,
       multiline |-> pos > 0 /\ ~(pos2 > 0)]

\* what a call of ins_decl has printed when it ends with `printed'
diagnostics(c, lineno, printed) ==
  (IF c.multiline
   THEN <<Report("multiline comment in declaration", lineno)>>
   ELSE <<>>) \o printed

\* a call of ins_decl that ends without accepting the declaration
ended(tab, a, c, st, printed) ==
  [tab |-> tab, printed |-> diagnostics(c, a.lineno, printed), status |-> st,
   used |-> a.used]

\* identify quantities used in contrib: `used[0] = t' rebinds the first
\* element of the local list and touches no used-set
ins_contrib(tab2, a, c, ctoks) ==
  LET hits == { i \in 1..Len(ctoks) : ctoks[i] \in DOMAIN tab2[a.namespaces[1]] }
  IN  [tab |-> tab2, printed |-> diagnostics(c, a.lineno, <<>>), status |-> 0,
       used |-> IF hits = {} THEN a.used
                ELSE [a.used EXCEPT ![1] =
                        ctoks[CHOOSE i \in hits : \A j \in hits : j <= i]]]

\* identify quantities used, accept declaration
ins_accept(tab, a, c, toks, d) ==
  LET refs == { toks[i] : i \in 2..Len(toks) } \cap
              UNION { DOMAIN tab[a.namespaces[i]] : i \in 1..Len(a.namespaces) }
      marked(k) == IF \E i \in 1..Len(a.used) : a.used[i] = k
                   THEN tab[k] \cup refs ELSE tab[k]
      accepted(k) == IF \E i \in 1..Len(a.namespaces) : a.namespaces[i] = k
                     THEN tab[k] @@ (toks[1] :> d) ELSE tab[k]
  IN  ins_contrib([params |-> accepted("params"),
                   post_decl |-> accepted("post_decl"),
                   decode_decl |-> accepted("decode_decl"),
                   post_used |-> marked("post_used"),
                   decode_used |-> marked("decode_used")],
                  a, c, ctok_nspace(a.contrib).toks)

\* identify initialiser without tokenising: the text from offset `start' up
\* to the first semi-colon
initialiser(line, start) ==
  LET init == SliceFrom(line, start)
  IN  Slice(init, 0, find(init, <<";">>))

\* the declaration without its terminator: chars[len(chars) - len(toks)] is
\* an IndexError when nothing but the semi-colon is left
ins_init(tab, a, c, chars, type, toks) ==
  IF Len(chars) - Len(toks) >= Len(chars)
  THEN ended(tab, a, c, 1, <<>>)
  ELSE ins_accept(tab, a, c, toks,
                  Decl(a.lineno, toks[1], strip(type),
                       strip(initialiser(c.line,
                                         chars[Len(chars) - Len(toks) + 1])),
                       a.level, a.macro, a.fninit, a.pre, a.contrib))

\* ins_checks without the collision check: a declaration of a known name
\* replaces the one in the namespace
ins_checks_overwriting(tab, a, c, chars, ty, toks) ==
  IF ty.raised THEN ended(tab, a, c, 1, <<>>)
  ELSE IF Len(toks) = 0
  THEN ended(tab, a, c, 2, <<Report("error parsing declaration", a.lineno)>>)
  ELSE IF toks[Len(toks)] # <<";">>
  THEN ended(tab, a, c, 2,
             <<Report("declaration without semi-colon ending", a.lineno)>>)
  ELSE ins_init(tab, a, c, chars, ty.type, SubSeq(toks, 1, Len(toks) - 1))

\* ins_checks without the terminator check: the last token is dropped
\* whatever it is
ins_checks_unterminated(tab, a, c, chars, ty, toks) ==
  IF ty.raised THEN ended(tab, a, c, 1, <<>>)
  ELSE IF Len(toks) = 0
  THEN ended(tab, a, c, 2, <<Report("error parsing declaration", a.lineno)>>)
  ELSE IF \E i \in 1..Len(a.namespaces) : toks[1] \in DOMAIN tab[a.namespaces[i]]
  THEN ended(tab, a, c, 2, <<Report("duplicate declaration", a.lineno)>>)
  ELSE ins_init(tab, a, c, chars, ty.type, SubSeq(toks, 1, Len(toks) - 1))

\* the checks of ins_decl on the tokens `toks' left after the type `ty'
ins_checks(tab, a, c, chars, ty, toks) ==
  IF ty.raised THEN ended(tab, a, c, 1, <<>>)
  ELSE IF Len(toks) = 0
  THEN \* huh?
       ended(tab, a, c, 2, <<Report("error parsing declaration", a.lineno)>>)
  ELSE IF \E i \in 1..Len(a.namespaces) : toks[1] \in DOMAIN tab[a.namespaces[i]]
  THEN \* collision
       ended(tab, a, c, 2, <<Report("duplicate declaration", a.lineno)>>)
  ELSE IF toks[Len(toks)] # <<";">>
  THEN ended(tab, a, c, 2,
             <<Report("declaration without semi-colon ending", a.lineno)>>)
  ELSE ins_init(tab, a, c, chars, ty.type, SubSeq(toks, 1, Len(toks) - 1))

\* the type of the declaration tokenised as `tc'
ins_type(tab, a, c, chars, ty) == ins_checks(tab, a, c, chars, ty, ty.toks)

\* tokenise the line `c' left by the removal of comments
ins_toks(tab, a, c, tc) == ins_type(tab, a, c, tc.chars, typeLoop(<<>>, tc.toks))

(* ins_decl on the tables `tab' (a record of the namespaces and used-sets, *)
(* by the names the main program gives them).  `namespaces' and `used' are *)
(* the lists of table names passed.  The result holds the tables after the *)
(* call, what was printed, how the call ended (0: returned, 2:             *)
(* sys.exit(2), 1: an uncaught IndexError) and the local list `used' as    *)
(* the contrib loop leaves it.                                             *)
ins_decl(tab, namespaces, used, line0, level, macro, lineno, fninit, pre, contrib) ==
  LET a == [namespaces |-> namespaces, used |-> used, level |-> level,
            macro |-> macro, lineno |-> lineno, fninit |-> fninit,
            pre |-> pre, contrib |-> contrib]
      c == inlinecomment(trailing(line0))
  IN  ins_toks(tab, a, c, ctok_nspace(rstrip(c.line)))

(* The pre-declared quantities, one record per ins_decl call of the main
   program, in call order; every text is the call's literal, character by
   character. *)
Builtins ==
  <<
  \* f_t (line 536)
  [namespaces |-> <<"decode_decl">>, used |-> <<"decode_used">>,
   line |-> <<"c","o","n","s","t"," ","u","n","s","i","g","n","e","d"," ","i","n","t"," ",
       "f","_","t",";">>,
   level |-> 1, lineno |-> -1,
   macro |-> <<"q","u","e","r","y","-",">","t","e","r","m","[","q","t","e","r","m","]",".",
       "f","_","t">>,
   fninit |-> <<>>,
   pre |-> <<>>,
   contrib |-> <<>> ],
  \* F_t (line 538)
  [namespaces |-> <<"decode_decl">>, used |-> <<"decode_used">>,
   line |-> <<"c","o","n","s","t"," ","u","n","s","i","g","n","e","d"," ","i","n","t"," ",
       "F","_","t",";">>,
   level |-> 1, lineno |-> -1,
   macro |-> <<"q","u","e","r","y","-",">","t","e","r","m","[","q","t","e","r","m","]",".",
       "F","_","t">>,
   fninit |-> <<>>,
   pre |-> <<>>,
   contrib |-> <<>> ],
  \* f_dt (line 540)
  [namespaces |-> <<"decode_decl">>, used |-> <<"decode_used">>,
   line |-> <<"c","o","n","s","t"," ","u","n","s","i","g","n","e","d"," ","i","n","t"," ",
       "f","_","d","t",";">>,
   level |-> 3, lineno |-> -1,
   macro |-> <<>>,
   fninit |-> <<>>,
   pre |-> <<>>,
   contrib |-> <<>> ],
  \* accumulator (line 545)
  [namespaces |-> <<"decode_decl", "post_decl">>, used |-> <<"decode_used", "post_used">>,
   line |-> <<"f","l","o","a","t"," ","a","c","c","u","m","u","l","a","t","o","r",";">>,
   level |-> 2, lineno |-> -1,
   macro |-> <<"a","c","c","-",">","a","c","c",".","w","e","i","g","h","t">>,
   fninit |-> <<>>,
   pre |-> <<>>,
   contrib |-> <<>> ],
  \* dterms (line 548)
  [namespaces |-> <<"decode_decl", "post_decl">>, used |-> <<"decode_used", "post_used">>,
   line |-> <<"c","o","n","s","t"," ","u","n","s","i","g","n","e","d"," ","i","n","t"," ",
       "d","t","e","r","m","s"," ","="," ","i","o","b","t","r","e","e","_","s","i",
       "z","e","(","i","d","x","-",">","v","o","c","a","b",")",";">>,
   level |-> 1, lineno |-> -1,
   macro |-> <<>>,
   fninit |-> <<>>,
   pre |-> <<>>,
   contrib |-> <<>> ],
  \* terms (line 551)
  [namespaces |-> <<"decode_decl", "post_decl">>, used |-> <<"decode_used", "post_used">>,
   line |-> <<"c","o","n","s","t"," ","d","o","u","b","l","e"," ","t","e","r","m","s"," ",
       "="," ","(","(","d","o","u","b","l","e",")"," ","U","I","N","T","_","M","A",
       "X",")"," ","*"," ","i","d","x","-",">","s","t","a","t","s",".","t","e","r",
       "m","s","_","h","i","g","h"," ","+"," ","i","d","x","-",">","s","t","a","t",
       "s",".","t","e","r","m","s","_","l","o","w",";">>,
   level |-> 1, lineno |-> -1,
   macro |-> <<>>,
   fninit |-> <<>>,
   pre |-> <<>>,
   contrib |-> <<>> ],
  \* N (line 554)
  [namespaces |-> <<"decode_decl", "post_decl">>, used |-> <<"decode_used", "post_used">>,
   line |-> <<"c","o","n","s","t"," ","u","n","s","i","g","n","e","d"," ","i","n","t"," ",
       "N"," ","="," ","d","o","c","m","a","p","_","e","n","t","r","i","e","s","(",
       "i","d","x","-",">","m","a","p",")",";">>,
   level |-> 1, lineno |-> -1,
   macro |-> <<>>,
   fninit |-> <<>>,
   pre |-> <<>>,
   contrib |-> <<>> ],
  \* avg_D_bytes (line 557)
  [namespaces |-> <<"decode_decl", "post_decl">>, used |-> <<"decode_used", "post_used">>,
   line |-> <<"d","o","u","b","l","e"," ","a","v","g","_","D","_","b","y","t","e","s",";">>,
   level |-> 1, lineno |-> -1,
   macro |-> <<>>,
   fninit |-> <<" "," "," "," "," "," "," "," "," ","i","f"," ","(","d","o","c","m","a","p",
       "_","a","v","g","_","b","y","t","e","s","(","i","d","x","-",">","m","a","p",
       ","," ","&","a","v","g","_","D","_","b","y","t","e","s",")"," ","!","="," ",
       "D","O","C","M","A","P","_","O","K",")"," ","{","\n"," "," "," "," "," "," ",
       " "," "," "," "," "," "," ","r","e","t","u","r","n"," ","S","E","A","R","C",
       "H","_","E","I","N","V","A","L",";","\n"," "," "," "," "," "," "," "," "," ",
       "}">>,
   pre |-> <<>>,
   contrib |-> <<>> ],
  \* avg_D_terms (line 564)
  [namespaces |-> <<"decode_decl", "post_decl">>, used |-> <<"decode_used", "post_used">>,
   line |-> <<"d","o","u","b","l","e"," ","a","v","g","_","D","_","t","e","r","m","s",";">>,
   level |-> 1, lineno |-> -1,
   macro |-> <<>>,
   fninit |-> <<" "," "," "," "," "," "," "," "," ","i","f"," ","(","d","o","c","m","a","p",
       "_","a","v","g","_","w","o","r","d","s","(","i","d","x","-",">","m","a","p",
       ","," ","&","a","v","g","_","D","_","t","e","r","m","s",")"," ","!","="," ",
       "D","O","C","M","A","P","_","O","K",")"," ","{","\n"," "," "," "," "," "," ",
       " "," "," "," "," "," "," ","r","e","t","u","r","n"," ","S","E","A","R","C",
       "H","_","E","I","N","V","A","L",";","\n"," "," "," "," "," "," "," "," "," ",
       "}">>,
   pre |-> <<>>,
   contrib |-> <<>> ],
  \* avg_D_dterms (line 571)
  [namespaces |-> <<"decode_decl", "post_decl">>, used |-> <<"decode_used", "post_used">>,
   line |-> <<"d","o","u","b","l","e"," ","a","v","g","_","D","_","d","t","e","r","m","s",";">>,
   level |-> 1, lineno |-> -1,
   macro |-> <<>>,
   fninit |-> <<" "," "," "," "," "," "," "," "," ","i","f"," ","(","d","o","c","m","a","p",
       "_","a","v","g","_","d","i","s","t","i","n","c","t","_","w","o","r","d","s",
       "(","i","d","x","-",">","m","a","p",","," ","&","a","v","g","_","D","_","d",
       "t","e","r","m","s",")"," ","!","="," ","D","O","C","M","A","P","_","O","K",
       ")"," ","{","\n"," "," "," "," "," "," "," "," "," "," "," "," "," ","r","e",
       "t","u","r","n"," ","S","E","A","R","C","H","_","E","I","N","V","A","L",";",
       "\n"," "," "," "," "," "," "," "," "," ","}">>,
   pre |-> <<>>,
   contrib |-> <<>> ],
  \* avg_D_weight (line 578)
  [namespaces |-> <<"decode_decl", "post_decl">>, used |-> <<"decode_used", "post_used">>,
   line |-> <<"d","o","u","b","l","e"," ","a","v","g","_","D","_","w","e","i","g","h","t",";">>,
   level |-> 1, lineno |-> -1,
   macro |-> <<>>,
   fninit |-> <<"i","f"," ","(","d","o","c","m","a","p","_","a","v","g","_","w","e","i","g",
       "h","t","(","i","d","x","-",">","m","a","p",","," ","&","a","v","g","_","D",
       "_","w","e","i","g","h","t",")"," ","!","="," ","D","O","C","M","A","P","_",
       "O","K",")"," ","{","\n"," "," "," "," "," "," "," "," "," "," "," "," "," ",
       "r","e","t","u","r","n"," ","S","E","A","R","C","H","_","E","I","N","V","A",
       "L",";","\n"," "," "," "," "," "," "," "," "," ","}">>,
   pre |-> <<>>,
   contrib |-> <<>> ],
  \* Q_terms (line 586)
  [namespaces |-> <<"decode_decl", "post_decl">>, used |-> <<"decode_used", "post_used">>,
   line |-> <<"c","o","n","s","t"," ","u","n","s","i","g","n","e","d"," ","i","n","t"," ",
       "Q","_","t","e","r","m","s"," ","="," ","s","e","a","r","c","h","_","q","t",
       "e","r","m","s","(","q","u","e","r","y",")",";">>,
   level |-> 1, lineno |-> -1,
   macro |-> <<>>,
   fninit |-> <<>>,
   pre |-> <<>>,
   contrib |-> <<>> ],
  \* Q_dterms (line 589)
  [namespaces |-> <<"decode_decl", "post_decl">>, used |-> <<"decode_used", "post_used">>,
   line |-> <<"c","o","n","s","t"," ","u","n","s","i","g","n","e","d"," ","i","n","t"," ",
       "Q","_","d","t","e","r","m","s",";">>,
   level |-> 1, lineno |-> -1,
   macro |-> <<"q","u","e","r","y","-",">","t","e","r","m","s">>,
   fninit |-> <<>>,
   pre |-> <<>>,
   contrib |-> <<>> ],
  \* Q_weight (line 592)
  [namespaces |-> <<"decode_decl", "post_decl">>, used |-> <<"decode_used", "post_used">>,
   line |-> <<"c","o","n","s","t"," ","f","l","o","a","t"," ","Q","_","w","e","i","g","h",
       "t"," ","="," ","s","e","a","r","c","h","_","q","w","e","i","g","h","t","(",
       "q","u","e","r","y",")",";">>,
   level |-> 1, lineno |-> -1,
   macro |-> <<>>,
   fninit |-> <<>>,
   pre |-> <<>>,
   contrib |-> <<>> ],
  \* D_bytes (line 595)
  [namespaces |-> <<"decode_decl", "post_decl">>, used |-> <<"decode_used", "post_used">>,
   line |-> <<"c","o","n","s","t"," ","u","n","s","i","g","n","e","d"," ","i","n","t"," ",
       "D","_","b","y","t","e","s",";">>,
   level |-> 2, lineno |-> -1,
   macro |-> <<"d","o","c","m","a","p","_","g","e","t","_","b","y","t","e","s","_","c","a",
       "c","h","e","d","(","i","d","x","-",">","m","a","p",","," ","a","c","c","-",
       ">","a","c","c",".","d","o","c","n","o",")">>,
   fninit |-> <<>>,
   pre |-> <<"i","f"," ","(","d","o","c","m","a","p","_","c","a","c","h","e","(","i","d",
       "x","-",">","m","a","p",","," ","d","o","c","m","a","p","_","g","e","t","_",
       "c","a","c","h","e","(","i","d","x","-",">","m","a","p",")"," ","|"," ","D",
       "O","C","M","A","P","_","C","A","C","H","E","_","B","Y","T","E","S",")"," ",
       "!","="," ","D","O","C","M","A","P","_","O","K",")"," ","r","e","t","u","r",
       "n"," ","S","E","A","R","C","H","_","E","I","N","V","A","L",";">>,
   contrib |-> <<"(","(","f","l","o","a","t",")"," ","a","v","g","_","D","_","b","y","t","e","s",")">> ],
  \* D_terms (line 599)
  [namespaces |-> <<"decode_decl", "post_decl">>, used |-> <<"decode_used", "post_used">>,
   line |-> <<"c","o","n","s","t"," ","u","n","s","i","g","n","e","d"," ","i","n","t"," ",
       "D","_","t","e","r","m","s",";">>,
   level |-> 2, lineno |-> -1,
   macro |-> <<"D","O","C","M","A","P","_","G","E","T","_","W","O","R","D","S","(","i","d",
       "x","-",">","m","a","p",","," ","a","c","c","-",">","a","c","c",".","d","o",
       "c","n","o",")">>,
   fninit |-> <<>>,
   pre |-> <<"i","f"," ","(","d","o","c","m","a","p","_","c","a","c","h","e","(","i","d",
       "x","-",">","m","a","p",","," ","d","o","c","m","a","p","_","g","e","t","_",
       "c","a","c","h","e","(","i","d","x","-",">","m","a","p",")"," ","|"," ","D",
       "O","C","M","A","P","_","C","A","C","H","E","_","W","O","R","D","S",")"," ",
       "!","="," ","D","O","C","M","A","P","_","O","K",")"," ","r","e","t","u","r",
       "n"," ","S","E","A","R","C","H","_","E","I","N","V","A","L",";">>,
   contrib |-> <<"(","(","f","l","o","a","t",")"," ","a","v","g","_","D","_","t","e","r","m","s",")">> ],
  \* D_dterms (line 603)
  [namespaces |-> <<"decode_decl", "post_decl">>, used |-> <<"decode_used", "post_used">>,
   line |-> <<"c","o","n","s","t"," ","u","n","s","i","g","n","e","d"," ","i","n","t"," ",
       "D","_","d","t","e","r","m","s",";">>,
   level |-> 2, lineno |-> -1,
   macro |-> <<"D","O","C","M","A","P","_","G","E","T","_","D","I","S","T","I","N","C","T",
       "_","W","O","R","D","S","(","i","d","x","-",">","m","a","p",","," ","a","c",
       "c","-",">","a","c","c",".","d","o","c","n","o",")">>,
   fninit |-> <<>>,
   pre |-> <<"i","f"," ","(","d","o","c","m","a","p","_","c","a","c","h","e","(","i","d",
       "x","-",">","m","a","p",","," ","d","o","c","m","a","p","_","g","e","t","_",
       "c","a","c","h","e","(","i","d","x","-",">","m","a","p",")"," ","|"," ","D",
       "O","C","M","A","P","_","C","A","C","H","E","_","D","I","S","T","I","N","C",
       "T","_","W","O","R","D","S",")"," ","!","="," ","D","O","C","M","A","P","_",
       "O","K",")"," ","r","e","t","u","r","n"," ","S","E","A","R","C","H","_","E",
       "I","N","V","A","L",";">>,
   contrib |-> <<"(","(","f","l","o","a","t",")"," ","a","v","g","_","D","_","d","t","e","r",
       "m","s",")">> ],
  \* D_weight (line 607)
  [namespaces |-> <<"decode_decl", "post_decl">>, used |-> <<"decode_used", "post_used">>,
   line |-> <<"c","o","n","s","t"," ","f","l","o","a","t"," ","D","_","w","e","i","g","h","t",";">>,
   level |-> 2, lineno |-> -1,
   macro |-> <<"D","O","C","M","A","P","_","G","E","T","_","W","E","I","G","H","T","(","i",
       "d","x","-",">","m","a","p",","," ","a","c","c","-",">","a","c","c",".","d",
       "o","c","n","o",")">>,
   fninit |-> <<>>,
   pre |-> <<"i","f"," ","(","d","o","c","m","a","p","_","c","a","c","h","e","(","i","d",
       "x","-",">","m","a","p",","," ","d","o","c","m","a","p","_","g","e","t","_",
       "c","a","c","h","e","(","i","d","x","-",">","m","a","p",")"," ","|"," ","D",
       "O","C","M","A","P","_","C","A","C","H","E","_","W","E","I","G","H","T",")",
       " ","!","="," ","D","O","C","M","A","P","_","O","K",")"," ","r","e","t","u",
       "r","n"," ","S","E","A","R","C","H","_","E","I","N","V","A","L",";">>,
   contrib |-> <<"(","(","f","l","o","a","t",")"," ","a","v","g","_","D","_","w","e","i","g",
       "h","t",")">> ],
  \* f_qt (line 611)
  [namespaces |-> <<"decode_decl", "post_decl">>, used |-> <<"decode_used", "post_used">>,
   line |-> <<"c","o","n","s","t"," ","u","n","s","i","g","n","e","d"," ","i","n","t"," ",
       "f","_","q","t",";">>,
   level |-> 1, lineno |-> -1,
   macro |-> <<"q","u","e","r","y","-",">","t","e","r","m","[","q","t","e","r","m","]",".",
       "f","_","q","t">>,
   fninit |-> <<>>,
   pre |-> <<>>,
   contrib |-> <<>> ]
  >>

(***************************************************************************)
(* Statement levels                                                        *)
(***************************************************************************)

\* a statement of a body: the list [lineno, level, text] of the code
Statement(lineno, level, text) ==
  [lineno |-> lineno, level |-> level, text |-> text]

assignops ==
  { <<"=">>, <<"+","=">>, <<"-","=">>, <<"/","=">>, <<"*","=">>, <<"&","=">>,
    <<"|","=">>, <<"^","=">> }

\* the test of levelise for an assignment statement
isassignment(decl, toks) ==
  Len(toks) > 2 /\ toks[1] \in DOMAIN decl /\ toks[2] \in assignops

(* The loop of levelise over the operand tokens `ts': every token that is  *)
(* a key of decl is recorded as used; one of level 6 prints the            *)
(* accumulator error (and the loop goes on), any other raises `level' to   *)
(* its level when that is higher.                                          *)
RECURSIVE scanLoop(_, _, _, _)
scanLoop(decl, ts, lineno, acc) ==
  IF ts = <<>> THEN acc
  ELSE LET t == Head(ts)
       IN  IF t \in DOMAIN decl
           THEN scanLoop(decl, Tail(ts), lineno,
                  [used |-> acc.used \cup {t},
                   printed |-> IF decl[t].level = 6
                               THEN Append(acc.printed,
                                      Report("accumulator used as rvalue", lineno))
                               ELSE acc.printed,
                   level |-> IF decl[t].level # 6 /\ decl[t].level > acc.level
                             THEN decl[t].level ELSE acc.level])
           ELSE scanLoop(decl, Tail(ts), lineno, acc)

\* scan that starts from level 2
scan_from2(decl, ts, lineno) ==
  scanLoop(decl, ts, lineno, [used |-> {}, printed |-> <<>>, level |-> 2])

scan(decl, ts, lineno) ==
  scanLoop(decl, ts, lineno, [used |-> {}, printed |-> <<>>, level |-> 1])

\* the level levelise stores into the target of an assignment
newlevel(target, level) == level

(* The assignment branch of levelise once the logical line is complete:    *)
(* the new namespace, used-set and statement list, and what was printed.   *)
assign(decl, used, list, toks, line, lineno) ==
  LET target == decl[toks[1]]
      \* check that we're not assigning to something we're not supposed to
      printed0 == IF target.lineno = 0 /\ Slice(target.type, 0, 5) = kw_const
                  THEN <<Report("assigning to const quantity", lineno)>>
                  ELSE <<>>
      r == scan(decl, SubSeq(toks, 3, Len(toks)), lineno)
  IN  [decl |-> [decl EXCEPT ![toks[1]].level = newlevel(target, r.level)],
       used |-> used \cup {toks[1]} \cup r.used,
       list |-> Append(list, Statement(lineno, r.level, strip(line))),
       printed |-> printed0 \o r.printed]

\* the comment branch of levelise
comment(list, line, lineno) ==
  Append(list, Statement(lineno, 1,
    <<"/","*"," ">> \o lstrip(SliceFrom(strip(line), 1)) \o <<" ","*","/">>))

\* the branch of levelise for any other statement
other(decl, used, list, toks, line, lineno) ==
  LET r == scan(decl, toks, lineno)
  IN  [decl |-> decl,
       used |-> used \cup r.used,
       list |-> Append(list, Statement(lineno, r.level, strip(line))),
       printed |-> r.printed]

(***************************************************************************)
(* Level propagation                                                       *)
(***************************************************************************)

\* propagateLoop without the comparison of levels: a brace statement takes
\* the level of the statement before it, higher or lower
RECURSIVE propagateLoop_assigning(_, _, _, _)
propagateLoop_assigning(statements, has, hasnot, prevlevel) ==
  IF statements = <<>> THEN <<>>
  ELSE LET s == Head(statements)
           s1 == IF find(s.text, <<has>>) >= 0 /\ find(s.text, <<hasnot>>) < 0
                 THEN [s EXCEPT !.level = prevlevel] ELSE s
       IN  <<s1>> \o propagateLoop_assigning(Tail(statements), has, hasnot,
                                              s1.level)

(* One loop of propagate over `statements' in list order: a statement      *)
(* whose text contains `has' and not `hasnot' takes the level of the       *)
(* statement before it when that is higher.                                *)
RECURSIVE propagateLoop(_, _, _, _)
propagateLoop(statements, has, hasnot, prevlevel) ==
  IF statements = <<>> THEN <<>>
  ELSE LET s == Head(statements)
           s1 == IF find(s.text, <<has>>) >= 0 /\ find(s.text, <<hasnot>>) < 0
                    /\ prevlevel > s.level
                 THEN [s EXCEPT !.level = prevlevel] ELSE s
       IN  <<s1>> \o propagateLoop(Tail(statements), has, hasnot, s1.level)

\* `rev.reverse' names the method without calling it: rev keeps list order
rev(statements) == statements

propagate(statements) ==
  LET forward == propagateLoop(statements, "}", "{", 0)
  IN  propagateLoop(rev(forward), "{", "}", 0)

(***************************************************************************)
(* State                                                                   *)
(***************************************************************************)

VARIABLES
  argv,         \* the command line: [options, args, family]
  pc,           \* where the main program is
  status,       \* the exit status, -1 while the process runs
  help, debug,  \* the option flags
  name,         \* the base name of the metric
  params, post_decl, post, post_used, decode_decl, decode, decode_used,
  comments,     \* the tables of the main program
  pre,          \* the collected pre-requisite code
  file,         \* the lines of the description file read so far
  fstate,       \* "unopened", "open", "eof" (open, readline returned '') or "closed"
  line, lineno, \* the current line of the description and its number
  toks,         \* the tokens of the logical line of an assignment
  body,         \* the body being read: "post", "decode" or "" at top level
  template,     \* the lines of the template file read so far
  tstate,       \* as fstate, for the template file
  first,        \* the template's first comment is not over yet
  header,       \* the generated header comment printed: its comment lines
  stdout,          \* the woven template body printed so far
  errors        \* the diagnostics printed so far

tables == <<params, post_decl, post, post_used, decode_decl, decode,
            decode_used, comments>>

vars == <<argv, pc, status, help, debug, name, params, post_decl, post,
          post_used, decode_decl, decode, decode_used, comments, pre, file,
          fstate, line, lineno, toks, body, template, tstate, first, header,
          stdout, errors>>

\* the namespaces and used-sets as the record ins_decl works on
tab == [params |-> params, post_decl |-> post_decl, decode_decl |-> decode_decl,
        post_used |-> post_used, decode_used |-> decode_used]

\* the tables take the value of the record t
settab(t) ==
  /\ params' = t.params
  /\ post_decl' = t.post_decl
  /\ decode_decl' = t.decode_decl
  /\ post_used' = t.post_used
  /\ decode_used' = t.decode_used

\* sys.exit(code), or an uncaught exception (code 1)
exit(code) == pc' = "exit" /\ status' = code

\* '# c\n'  (an initial comment line)
L_comment == <<"#"," ","c","\n">>

\* 'parameter float k1;\n'  (the parameter of scenario A)
L_param_k1 == <<"p","a","r","a","m","e","t","e","r"," ","f","l","o","a","t"," ","k","1",";","\n">>

\* 'parameter float k2\n'  (a parameter without terminator)
L_param_noterm == <<"p","a","r","a","m","e","t","e","r"," ","f","l","o","a","t"," ","k","2","\n">>

\* 'parameter int b /* x ;\n'  (a parameter with an unterminated block comment)
L_param_cmt == <<"p","a","r","a","m","e","t","e","r"," ","i","n","t"," ","b"," ","/","*"," ",
       "x"," ",";","\n">>

\* 'parameter int\n'  (a parameter line without a name)
L_param_noname == <<"p","a","r","a","m","e","t","e","r"," ","i","n","t","\n">>

\* 'parameter int f_t;\n'  (a parameter named like a quantity of decode)
L_param_f_t == <<"p","a","r","a","m","e","t","e","r"," ","i","n","t"," ","f","_","t",";","\n">>

\* 'junk\n'  (a line no top-level form matches)
L_junk == <<"j","u","n","k","\n">>

\* 'decode() {\n'
L_decode == <<"d","e","c","o","d","e","(",")"," ","{","\n">>

\* 'post() {\n'
L_post == <<"p","o","s","t","(",")"," ","{","\n">>

\* '}\n'  (the line that closes a body)
L_close == <<"}","\n">>

\* 'float s;\n'  (the declaration of scenario A)
L_decl_s == <<"f","l","o","a","t"," ","s",";","\n">>

\* 'int t = s; # c\n'  (a declaration with an initialiser and a trailing comment)
L_decl_t == <<"i","n","t"," ","t"," ","="," ","s",";"," ","#"," ","c","\n">>

\* 'float u\n'  (scenario C: a declaration without terminator)
L_decl_noterm == <<"f","l","o","a","t"," ","u","\n">>

\* 'float f_t;\n'  (scenario B: a declaration of a built-in name)
L_decl_f_t == <<"f","l","o","a","t"," ","f","_","t",";","\n">>

\* 's = k1 * accumulator;\n'  (the statement of scenario A)
L_stmt_A == <<"s"," ","="," ","k","1"," ","*"," ","a","c","c","u","m","u","l","a","t","o",
       "r",";","\n">>

\* 's = f_dt;\n'
L_stmt_f_dt == <<"s"," ","="," ","f","_","d","t",";","\n">>

\* 's = 1;\n'
L_stmt_one == <<"s"," ","="," ","1",";","\n">>

\* 'accumulator += s;\n'
L_stmt_acc == <<"a","c","c","u","m","u","l","a","t","o","r"," ","+","="," ","s",";","\n">>

\* ' if (s) {\n'  (the opening line of a braced block)
L_stmt_open == <<" ","i","f"," ","(","s",")"," ","{","\n">>

\* ' }\n'  (the closing line of a braced block)
L_stmt_close == <<" ","}","\n">>

\* 's = t\n'  (an assignment continued on the next line)
L_stmt_noterm == <<"s"," ","="," ","t","\n">>
(***************************************************************************)
(* Inputs                                                                  *)
(***************************************************************************)

\* ' if (t) {\n'  (the opening line of a braced block that names t)
L_stmt_open_t == <<" ","i","f"," ","(","t",")"," ","{","\n">>

\* 's = D_terms;\n'  (a quantity of level 2 with a macro, pre-requisite code and a
\* contribution expression)
L_stmt_D == <<"s"," ","="," ","D","_","t","e","r","m","s",";","\n">>

\* 's = avg_D_terms;\n'  (a quantity with initialisation code)
L_stmt_avg == <<"s"," ","="," ","a","v","g","_","D","_","t","e","r","m","s",";","\n">>

\* 'N = 1;\n'  (an assignment to a pre-declared quantity of const type)
L_stmt_N == <<"N"," ","="," ","1",";","\n">>

\* 'k1 = f_dt;\n'  (an assignment to a parameter)
L_stmt_k1 == <<"k","1"," ","="," ","f","_","d","t",";","\n">>

\* 'parameter float k2 = f_t;\n'  (an initialiser that names a quantity
\* only decode has)
L_param_init == <<"p","a","r","a","m","e","t","e","r"," ","f","l","o","a","t"," ","k","2"," ","=",
    " ","f","_","t",";","\n">>

\* the most lines a generated description file holds
MaxLines == 4

\* the line counter stops counting here (it only gets there in the loop of
\* levelise that reads past the end of the file)
MaxLineNo == 12

\* "bm25.metric" and "t.c": the two file arguments
arg_metric == <<"b","m","2","5",".","m","e","t","r","i","c">>

arg_template == <<"t",".","c">>

\* the lines a generated description may hold at top level and in a body
TopLib ==
  { L_comment, L_param_k1, L_param_f_t, L_param_noterm, L_param_cmt,
    L_param_noname, L_junk, L_decode, L_post }

BodyLib ==
  { L_close, L_decl_s, L_decl_t, L_decl_noterm, L_decl_f_t, L_stmt_A,
    L_stmt_f_dt, L_stmt_one, L_stmt_acc, L_stmt_open, L_stmt_close,
    L_stmt_noterm, L_comment }

\* scenario A of the specification
ScenarioA ==
  << L_param_k1, L_decode, L_close, L_post, L_decl_s, L_stmt_A, L_close >>

(* The descriptions of family "E", made to be emitted: the parameter k1,   *)
(* a decode body that declares s and t and holds up to MaxStmts           *)
(* statements, and a post body that declares s and holds one statement.   *)

\* the most statements the decode body of such a description holds
MaxStmts == 3

EStmtLib ==
  { L_stmt_f_dt, L_stmt_D, L_stmt_avg, L_stmt_acc, L_stmt_open_t, L_stmt_close }

EPostLib == { L_stmt_A, L_stmt_D, L_stmt_avg }

EHead == << L_param_k1, L_decode, L_decl_s, L_decl_t >>

\* the lines such a description may go on with after the lines f
enextlines(f) ==
  LET closed == { i \in 1..Len(f) : f[i] = L_close }
      c == CHOOSE i \in closed : \A j \in closed : i <= j
      tail == << L_post, L_decl_s >>
  IN  IF Len(f) < Len(EHead) THEN {EHead[Len(f) + 1]}
      ELSE IF closed = {}
      THEN {L_close} \cup (IF Len(f) - Len(EHead) < MaxStmts THEN EStmtLib ELSE {})
      ELSE IF Len(f) - c < Len(tail) THEN {tail[Len(f) - c + 1]}
      ELSE IF Len(f) - c = Len(tail) THEN EPostLib
      ELSE IF Len(f) - c = Len(tail) + 1 THEN {L_close}
      ELSE {<<>>}

(* The descriptions of family "S": whole descriptions, each woven into a   *)
(* template that holds every marker once.                                 *)
Scenarios ==
  { << L_decode, L_stmt_N, L_close >>,
    << L_param_init, L_post, L_decl_s, L_stmt_A, L_close >>,
    << L_decode, L_decl_s, L_stmt_f_dt, L_stmt_open, L_stmt_A, L_stmt_close,
       L_close >>,
    << L_param_k1, L_decode, L_stmt_k1, L_close, L_post, L_decl_s, L_stmt_A,
       L_close >> }

\* the lines such a description may go on with after the lines f
snextlines(f) ==
  LET go == { s \in Scenarios : Len(s) > Len(f) /\ SubSeq(s, 1, Len(f)) = f }
  IN  { s[Len(f) + 1] : s \in go } \cup (IF f \in Scenarios THEN {<<>>} ELSE {})

\* whether the lines f of a generated description end inside a body
RECURSIVE inbody(_)
inbody(f) ==
  IF f = <<>> THEN FALSE
  ELSE LET l == f[Len(f)]
       IN  IF l = L_decode \/ l = L_post THEN TRUE
           ELSE IF l = L_close THEN FALSE
           ELSE inbody(SubSeq(f, 1, Len(f) - 1))

\* the lines a description of the family may go on with after the lines f
nextlines(family, f) ==
  IF family = "A"
  THEN IF Len(f) < Len(ScenarioA) THEN {ScenarioA[Len(f) + 1]} ELSE {<<>>}
  ELSE IF family = "E" THEN enextlines(f)
  ELSE IF family = "S" THEN snextlines(f)
  ELSE {<<>>} \cup
       (IF Len(f) >= MaxLines THEN {}
        ELSE IF inbody(f) THEN BodyLib ELSE TopLib)

\* what file.readline() may return after the results `log' so far: a next
\* line of the file, or '' at its end and ever after
readline(log) ==
  IF log # <<>> /\ log[Len(log)] = <<>> THEN {<<>>}
  ELSE nextlines(argv.family, log)

\* the log of readline results after the result l
logged(log, l) ==
  IF log # <<>> /\ log[Len(log)] = <<>> THEN log ELSE Append(log, l)

\* lineno += 1
bump(n) == IF n < MaxLineNo THEN n + 1 ELSE n

\* the command lines
Launches ==
  { [options |-> <<>>, args |-> <<arg_metric, arg_template>>, family |-> "gen"],
    [options |-> <<>>, args |-> <<arg_metric, arg_template>>, family |-> "A"],
    [options |-> <<>>, args |-> <<arg_metric, arg_template>>, family |-> "E"],
    [options |-> <<>>, args |-> <<arg_metric, arg_template>>, family |-> "S"],
    [options |-> <<"--debug">>, args |-> <<arg_metric, arg_template>>, family |-> "A"],
    [options |-> <<"--help">>, args |-> <<>>, family |-> "A"],
    [options |-> <<"-v">>, args |-> <<arg_metric, arg_template>>, family |-> "A"],
    [options |-> <<"--bogus">>, args |-> <<arg_metric, arg_template>>, family |-> "A"],
    [options |-> <<>>, args |-> <<arg_metric>>, family |-> "A"] }

(***************************************************************************)
(* The main program                                                        *)
(***************************************************************************)

Init ==
  /\ argv \in Launches
  /\ pc = "start"
  /\ status = -1
  /\ help = FALSE
  /\ debug = FALSE
  /\ name = <<>>
  /\ params = <<>>
  /\ post_decl = <<>>
  /\ post = <<>>
  /\ post_used = {}
  /\ decode_decl = <<>>
  /\ decode = <<>>
  /\ decode_used = {}
  /\ comments = <<>>
  /\ pre = <<>>
  /\ file = <<>>
  /\ fstate = "unopened"
  /\ line = <<>>
  /\ lineno = 0
  /\ toks = <<>>
  /\ body = ""
  /\ template = <<>>
  /\ tstate = "unopened"
  /\ first = TRUE
  /\ header = [printed |-> FALSE, comments |-> <<>>]
  /\ stdout = [out |-> <<>>, softspace |-> FALSE, raised |-> FALSE]
  /\ errors = <<>>

\* the ins_decl calls for the pre-declared quantities, in order
RECURSIVE predeclare(_, _)
predeclare(t, bs) ==
  IF bs = <<>> THEN t
  ELSE LET b == Head(bs)
           r == ins_decl(t, b.namespaces, b.used, b.line, b.level, b.macro,
                         b.lineno, b.fninit, b.pre, b.contrib)
       IN  IF r.status = 0 THEN predeclare(r.tab, Tail(bs)) ELSE r.tab

\* the tables before any declaration (lines 516-523)
notables == [params |-> <<>>, post_decl |-> <<>>, decode_decl |-> <<>>,
             post_used |-> {}, decode_used |-> {}]

\* the tables once the pre-declared quantities are in (lines 536-613)
predeclared == predeclare(notables, Builtins)

\* the options, the argument count, the pre-declared quantities and the
\* metric's name
Startup ==
  /\ pc = "start"
  /\ LET known == {"--help", "-h", "--version", "-v", "--debug"}
         opts == argv.options
         isversion(i) == opts[i] \in {"--version", "-v"}
         h == \E i \in 1..Len(opts) : opts[i] \in {"--help", "-h"}
         path == splitOn(argv.args[1], "/")
         parts == splitOn(path[Len(path)], ".")
     IN  IF \E i \in 1..Len(opts) : opts[i] \notin known
         THEN /\ errors' = Append(errors, Report("usage", 0))
              /\ exit(2)
              /\ UNCHANGED <<help, debug, name, tables>>
         ELSE IF \E i \in 1..Len(opts) : isversion(i)
         THEN /\ errors' = Append(errors, Report("version 0.2", 0))
              /\ exit(2)
              /\ help' = \E i \in 1..Len(opts) :
                           /\ opts[i] \in {"--help", "-h"}
                           /\ \A j \in 1..i : ~isversion(j)
              /\ debug' = \E i \in 1..Len(opts) :
                            /\ opts[i] = "--debug"
                            /\ \A j \in 1..i : ~isversion(j)
              /\ UNCHANGED <<name, tables>>
         ELSE /\ help' = h
              /\ debug' = \E i \in 1..Len(opts) : opts[i] = "--debug"
              /\ IF Len(argv.args) # 2 /\ ~h
                 THEN /\ errors' = Append(errors, Report("usage", 0))
                      /\ exit(2)
                      /\ UNCHANGED <<name, tables>>
                 ELSE /\ settab(predeclared)
                      /\ UNCHANGED <<post, decode, comments>>
                      /\ IF h
                         THEN /\ errors' = Append(errors, Report("usage and quantities", 0))
                              /\ exit(2)
                              /\ name' = name
                         ELSE /\ name' = parts[1]
                              /\ pc' = "open"
                              /\ UNCHANGED <<status, errors>>
  /\ UNCHANGED <<argv, pre, file, fstate, line, lineno, toks, body, template,
                 tstate, first, header, stdout>>

\* file = open(args[0]) and the first readline
OpenMetric ==
  /\ pc = "open"
  /\ \/ \* IOError
        /\ errors' = Append(errors, Report("error opening file", 0))
        /\ exit(2)
        /\ UNCHANGED <<file, fstate, line, lineno>>
     \/ \E l \in readline(file) :
          /\ fstate' = "open"
          /\ lineno' = 1
          /\ line' = l
          /\ file' = logged(file, l)
          /\ pc' = "top"
          /\ UNCHANGED <<status, errors>>
  /\ UNCHANGED <<argv, help, debug, name, tables, pre, toks, body, template,
                 tstate, first, header, stdout>>

\* the next line of the description is read
next(l) ==
  /\ l \in readline(file)
  /\ line' = l
  /\ lineno' = bump(lineno)
  /\ file' = logged(file, l)

\* the name the main program reads off a parameter line: `raised' when
\* vname[0] is read from an empty list (IndexError)
RECURSIVE vnameLoop(_)
vnameLoop(vname) ==
  IF vname = <<>> THEN [raised |-> TRUE, vname |-> <<>>]
  ELSE IF isdecl(vname[1]) = 1 THEN vnameLoop(Tail(vname))
  ELSE LET v == strip(vname[1])
       IN  [raised |-> FALSE,
            vname |-> IF v[Len(v)] = ";" THEN Slice(v, 0, -1) ELSE v]

kw_parameter == <<"p","a","r","a","m","e","t","e","r">>

\* one turn of the main loop over the description's top-level lines
TopLevelLine ==
  /\ pc = "top"
  /\ line # <<>>
  /\ LET sline == strip(line)
         words == split(line)
     IN  IF Len(sline) = 0 \/ sline[1] = "#"
         THEN \* its a or empty comment
              /\ comments' =
                   IF lineno <= Len(comments) + 1
                   THEN Append(comments,
                          IF Len(sline) > 0 THEN lstrip(SliceFrom(strip(line), 1))
                          ELSE <<>>)
                   ELSE comments
              /\ \E l \in readline(file) : next(l)
              /\ UNCHANGED <<pc, status, errors, body, params, post_decl,
                             post_used, decode_decl, decode_used>>
         ELSE IF Len(words) > 1 /\ words[1] = kw_parameter
         THEN \* got parameter, process it
              LET v == vnameLoop(Tail(words))
                  r == ins_decl(tab, <<"params", "post_decl", "decode_decl">>,
                         <<"decode_used", "post_used">>,
                         SliceFrom(line, Len(kw_parameter)), 1,
                         <<"o","p","t","-",">","u",".">> \o name \o <<".">> \o v.vname,
                         lineno, <<>>, <<>>, <<>>)
              IN  IF v.raised
                  THEN /\ exit(1)
                       /\ UNCHANGED <<errors, comments, body, line, lineno, file,
                                      params, post_decl, post_used, decode_decl,
                                      decode_used>>
                  ELSE /\ errors' = errors \o r.printed
                       /\ settab(r.tab)
                       /\ UNCHANGED <<comments, body>>
                       /\ IF r.status # 0
                          THEN exit(r.status) /\ UNCHANGED <<line, lineno, file>>
                          ELSE /\ \E l \in readline(file) : next(l)
                               /\ UNCHANGED <<pc, status>>
         ELSE IF Len(words) = 2 /\ words[2] = <<"{">>
                 /\ words[1] \in { <<"p","o","s","t","(",")">>,
                                   <<"d","e","c","o","d","e","(",")">> }
         THEN \* in post or decode section: process_decl starts with next line
              /\ body' = IF words[1] = <<"p","o","s","t","(",")">>
                         THEN "post" ELSE "decode"
              /\ \E l \in readline(file) : next(l)
              /\ pc' = "decl"
              /\ UNCHANGED <<status, errors, comments, params, post_decl,
                             post_used, decode_decl, decode_used>>
         ELSE /\ errors' = Append(errors, Report("unexpected line", lineno))
              /\ exit(2)
              /\ UNCHANGED <<comments, body, line, lineno, file, params,
                             post_decl, post_used, decode_decl, decode_used>>
  /\ UNCHANGED <<argv, help, debug, name, post, decode, pre, fstate, toks,
                 template, tstate, first, header, stdout>>

\* the namespace, the used-set and the statement list of the body being read
decl == IF body = "post" THEN post_decl ELSE decode_decl

used == IF body = "post" THEN post_used ELSE decode_used

list == IF body = "post" THEN post ELSE decode

\* setbody when the namespaces share their declarations: the level that
\* d gives a name goes to the other body's namespace as well
setbody_shared(d, u, l) ==
  LET shared(e) == [n \in DOMAIN e |->
                     IF n \in DOMAIN d THEN [e[n] EXCEPT !.level = d[n].level]
                     ELSE e[n]]
  IN  /\ post_decl' = IF body = "post" THEN d ELSE shared(post_decl)
      /\ post_used' = IF body = "post" THEN u ELSE post_used
      /\ post' = IF body = "post" THEN l ELSE post
      /\ decode_decl' = IF body = "post" THEN shared(decode_decl) ELSE d
      /\ decode_used' = IF body = "post" THEN decode_used ELSE u
      /\ decode' = IF body = "post" THEN decode ELSE l

\* the body's namespace, used-set and statement list take these values
setbody(d, u, l) ==
  /\ post_decl' = IF body = "post" THEN d ELSE post_decl
  /\ post_used' = IF body = "post" THEN u ELSE post_used
  /\ post' = IF body = "post" THEN l ELSE post
  /\ decode_decl' = IF body = "post" THEN decode_decl ELSE d
  /\ decode_used' = IF body = "post" THEN decode_used ELSE u
  /\ decode' = IF body = "post" THEN decode ELSE l

\* the level process_decl gives a declaration of a body
decl_level == 1

\* one turn of the loop of process_decl, or what follows the loop
ProcessDeclLine ==
  /\ pc = "decl"
  /\ IF line = <<>>
     THEN /\ errors' = Append(errors, Report("unexpected EOF", lineno))
          /\ exit(2)
          /\ UNCHANGED <<body, line, lineno, file, params, post_decl, post_used,
                         decode_decl, decode_used>>
     ELSE IF rstrip(line) = <<"}">>
     THEN \* process_decl and levelise return this line; the main loop goes on
          /\ pc' = "top"
          /\ body' = ""
          /\ \E l \in readline(file) : next(l)
          /\ UNCHANGED <<status, errors, params, post_decl, post_used,
                         decode_decl, decode_used>>
     ELSE IF ~(Len(strip(line)) > 0 /\ strip(line)[1] # "#")
     THEN /\ \E l \in readline(file) : next(l)
          /\ UNCHANGED <<pc, status, errors, body, params, post_decl, post_used,
                         decode_decl, decode_used>>
     ELSE IF isdecl(ctok_nspace(line).toks[1]) = 1
     THEN LET r == ins_decl(tab, <<body \o "_decl">>, <<body \o "_used">>, line,
                            decl_level, <<>>, lineno, <<>>, <<>>, <<>>)
          IN  /\ errors' = errors \o r.printed
              /\ settab(r.tab)
              /\ UNCHANGED body
              /\ IF r.status # 0
                 THEN exit(r.status) /\ UNCHANGED <<line, lineno, file>>
                 ELSE /\ \E l \in readline(file) : next(l)
                      /\ UNCHANGED <<pc, status>>
     ELSE \* the first line that isn't a declaration goes to levelise
          /\ pc' = "stmt"
          /\ UNCHANGED <<status, errors, body, line, lineno, file, params,
                         post_decl, post_used, decode_decl, decode_used>>
  /\ UNCHANGED <<argv, help, debug, name, post, decode, comments, pre, fstate,
                 toks, template, tstate, first, header, stdout>>

\* one turn of the loop of levelise, or what follows the loop
LeveliseLine ==
  /\ pc = "stmt"
  /\ IF line = <<>>
     THEN /\ errors' = Append(errors,
                         Report("unexpected EOF in " \o body, lineno))
          /\ exit(2)
          /\ UNCHANGED <<body, line, lineno, file, toks, post_decl, post_used,
                         post, decode_decl, decode_used, decode>>
     ELSE IF rstrip(line) = <<"}">>
     THEN /\ pc' = "top"
          /\ body' = ""
          /\ \E l \in readline(file) : next(l)
          /\ UNCHANGED <<status, errors, toks, post_decl, post_used, post,
                         decode_decl, decode_used, decode>>
     ELSE LET ts == ctok_nspace(line).toks
          IN  IF isassignment(decl, ts)
              THEN \* assignment statement: the logical line is completed first
                   /\ toks' = ts
                   /\ pc' = "extend"
                   /\ UNCHANGED <<status, errors, body, line, lineno, file,
                                  post_decl, post_used, post, decode_decl,
                                  decode_used, decode>>
              ELSE IF Len(ts) > 0 /\ strip(line)[1] = "#"
              THEN /\ setbody(decl, used, comment(list, line, lineno))
                   /\ \E l \in readline(file) : next(l)
                   /\ UNCHANGED <<pc, status, errors, body, toks>>
              ELSE LET r == other(decl, used, list, ts, line, lineno)
                   IN  /\ setbody(r.decl, r.used, r.list)
                       /\ errors' = errors \o r.printed
                       /\ \E l \in readline(file) : next(l)
                       /\ UNCHANGED <<pc, status, body, toks>>
  /\ UNCHANGED <<argv, help, debug, name, params, comments, pre, fstate,
                 template, tstate, first, header, stdout>>

\* one turn of the loop that extends the logical line of an assignment
LeveliseExtend ==
  /\ pc = "extend"
  /\ toks[Len(toks)] # <<";">>
  /\ \E nline \in readline(file) :
       /\ file' = logged(file, nline)
       /\ lineno' = bump(lineno)
       /\ toks' = toks \o ctok_nspace(nline).toks
       /\ line' = rstrip(line) \o <<" ">> \o nline
  /\ UNCHANGED <<argv, pc, status, help, debug, name, tables, pre, fstate, body,
                 template, tstate, first, header, stdout, errors>>

\* the assignment statement, its logical line complete
LeveliseAssign ==
  /\ pc = "extend"
  /\ toks[Len(toks)] = <<";">>
  /\ LET r == assign(decl, used, list, toks, line, lineno)
     IN  /\ setbody(r.decl, r.used, r.list)
         /\ errors' = errors \o r.printed
  /\ \E l \in readline(file) : next(l)
  /\ pc' = "stmt"
  /\ UNCHANGED <<argv, status, help, debug, name, params, comments, pre, fstate,
                 toks, body, template, tstate, first, header, stdout>>

(* levelise as a whole, on the lines `lines' that file.readline() is to    *)
(* return before the end of the file: the namespace, the list and the     *)
(* used-set it leaves, what it printed, and `spins' when the loop that    *)
(* completes an assignment reads past the end of the file.                *)

\* the loop that extends the logical line of an assignment
RECURSIVE extend(_, _, _, _)
extend(ts, line0, lines, n) ==
  IF ts[Len(ts)] = <<";">>
  THEN [spins |-> FALSE, toks |-> ts, line |-> line0, lines |-> lines, lineno |-> n]
  ELSE IF lines = <<>>
  THEN [spins |-> TRUE, toks |-> ts, line |-> line0, lines |-> lines, lineno |-> n]
  ELSE extend(ts \o ctok_nspace(Head(lines)).toks,
              rstrip(line0) \o <<" ">> \o Head(lines), Tail(lines), bump(n))

RECURSIVE levelise(_, _, _)
levelise(lines, n, acc) ==
  IF lines = <<>> \/ rstrip(Head(lines)) = <<"}">> THEN acc
  ELSE LET ts == ctok_nspace(Head(lines)).toks
       IN  IF isassignment(acc.decl, ts)
           THEN LET x == extend(ts, Head(lines), Tail(lines), n)
                    r == assign(acc.decl, acc.used, acc.list, x.toks, x.line, x.lineno)
                IN  IF x.spins THEN [acc EXCEPT !.spins = TRUE]
                    ELSE levelise(x.lines, bump(x.lineno),
                                  [acc EXCEPT !.decl = r.decl, !.used = r.used,
                                              !.list = r.list,
                                              !.printed = @ \o r.printed])
           ELSE IF Len(ts) > 0 /\ strip(Head(lines))[1] = "#"
           THEN levelise(Tail(lines), bump(n),
                         [acc EXCEPT !.list = comment(@, Head(lines), n)])
           ELSE LET r == other(acc.decl, acc.used, acc.list, ts, Head(lines), n)
                IN  levelise(Tail(lines), bump(n),
                             [acc EXCEPT !.decl = r.decl, !.used = r.used,
                                         !.list = r.list,
                                         !.printed = @ \o r.printed])

\* comments without the empty lines at its end
RECURSIVE trimmed(_)
trimmed(cs) ==
  IF Len(cs) > 0 /\ cs[Len(cs)] = <<>> THEN trimmed(SubSeq(cs, 1, Len(cs) - 1))
  ELSE cs

\* the orders in which a dict may yield the keys ks
orders(ks) ==
  { o \in [1..Cardinality(ks) -> ks] : \A k \in ks : \E i \in DOMAIN o : o[i] = k }

\* pre_infer that collects the macros of the quantities it selects
pre_infer_macro(u, d, keys) ==
  LET sel == SelectSeq(keys, LAMBDA x : x \in u /\ Len(d[x].pre) > 0)
  IN  [i \in 1..Len(sel) |-> d[sel[i]].macro]

\* pre_infer: the pre-requisite code of the used quantities that have some,
\* in the order `keys' of the namespace's keys
pre_infer(u, d, keys) ==
  LET sel == SelectSeq(keys, LAMBDA x : x \in u /\ Len(d[x].pre) > 0)
  IN  [i \in 1..Len(sel) |-> d[sel[i]].pre]

\* the keys of namespace d that pre_infer selects
prekeys(u, d) == { x \in DOMAIN d : x \in u /\ Len(d[x].pre) > 0 }

\* the end of the description: close, propagate, pre-requisites, --debug
Finish ==
  /\ pc = "top"
  /\ line = <<>>
  /\ fstate' = "closed"
  /\ comments' = trimmed(comments)
  /\ post' = propagate(post)
  /\ decode' = propagate(decode)
  /\ \E po \in orders(prekeys(post_used, post_decl)),
        do \in orders(prekeys(decode_used, decode_decl)) :
       pre' = pre_infer(post_used, post_decl, po)
                \o pre_infer(decode_used, decode_decl, do)
  /\ IF debug
     THEN /\ errors' = Append(errors, Report("debug dump", 0))
          /\ exit(0)
     ELSE /\ pc' = "template"
          /\ UNCHANGED <<status, errors>>
  /\ UNCHANGED <<argv, help, debug, name, params, post_decl, post_used,
                 decode_decl, decode_used, file, line, lineno, toks, body,
                 template, tstate, first, header, stdout>>

(***************************************************************************)
(* Emission                                                                *)
(***************************************************************************)

(* What has been written to standard output as generated code, with the    *)
(* softspace flag of Python's print statement, and whether an exception    *)
(* was raised: [out, softspace, raised].                                   *)

\* write that drops the blanks of what it is given
write_unspaced(e, s) ==
  [e EXCEPT !.out = @ \o SelectSeq(s, LAMBDA ch : ch # " "), !.softspace = FALSE]

\* sys.stdout.write(s)
write(e, s) == [e EXCEPT !.out = @ \o s, !.softspace = FALSE]

\* the items of a print statement
RECURSIVE printitems(_, _)
printitems(e, items) ==
  IF items = <<>> THEN e
  ELSE LET it == Head(items)
           sp == IF e.softspace THEN <<" ">> ELSE <<>>
           endsline == Len(it) > 0 /\ isspace(it[Len(it)]) /\ it[Len(it)] # " "
       IN  printitems([e EXCEPT !.out = @ \o sp \o it, !.softspace = ~endsline],
                      Tail(items))

\* print a, b
print(e, items) ==
  [printitems(e, items) EXCEPT !.out = @ \o <<"\n">>, !.softspace = FALSE]

\* for l in ls: print l
RECURSIVE printeach(_, _)
printeach(e, ls) ==
  IF ls = <<>> THEN e ELSE printeach(print(e, <<Head(ls)>>), Tail(ls))

\* print a, b,
printcomma(e, items) == printitems(e, items)

\* str(n) of a number below 100
digit(n) == <<"0","1","2","3","4","5","6","7","8","9">>[n + 1]

str(n) == IF n < 10 THEN <<digit(n)>> ELSE <<digit(n \div 10), digit(n % 10)>>

\* sep.join(ss)
RECURSIVE join(_, _)
join(ss, sep) ==
  IF ss = <<>> THEN <<>>
  ELSE IF Len(ss) = 1 THEN ss[1]
  ELSE ss[1] \o sep \o join(Tail(ss), sep)

\* Simple function to uniformly indent lines.
indent(s, dent) ==
  LET lines == splitOn(s, "\n")
  IN  join([i \in 1..Len(lines) |-> Repeat(" ", dent) \o lines[i]], <<"\n">>)

\* len(x) - len(x.lstrip())
leading(x) == Len(x) - Len(lstrip(x))

\* Simple function to uniformly remove whitespace from the front of lines.
dedent(s) ==
  LET lines == splitOn(s, "\n")
      full == { i \in 1..Len(lines) : Len(lstrip(lines[i])) > 0 }
      dent == IF full = {} THEN 0
              ELSE leading(lines[CHOOSE i \in full :
                                   \A j \in full : leading(lines[i]) <= leading(lines[j])])
  IN  join([i \in 1..Len(lines) |->
              IF Len(lstrip(lines[i])) > 0 /\ Len(SliceFrom(lines[i], dent)) > 0
              THEN SliceFrom(lines[i], dent) ELSE lines[i]],
           <<"\n">>)

\* the name of a quantity in place of its macro
macro_of_name(x) == x.name

macro_of(x) == x.macro

\* contrib_replace without the macro to fall back on
contrib_replace_only(x) == x.contrib

contrib_replace(x) == IF Len(x.contrib) > 0 THEN x.contrib ELSE x.macro

\* fn(x), fn the function of that name: the default lambda x: x.macro, or
\* contrib_replace
call(fn, x) == IF fn = "contrib_replace" THEN contrib_replace(x) ELSE macro_of(x)

get_replace_map(decls, fn) ==
  [i \in { x \in DOMAIN decls : Len(call(fn, decls[x])) > 0 } |->
     <<"(">> \o call(fn, decls[i]) \o <<")">>]

\* replaced that leaves out the tokens of whitespace
replaced_words(ts, macros) ==
  Flatten([i \in 1..Len(ts) |-> IF ts[i] \in DOMAIN macros THEN macros[ts[i]]
                                 ELSE IF tokisspace(ts[i]) THEN <<>> ELSE ts[i]])

\* the tokens written one by one, each replaced when it is a key of macros
replaced(ts, macros) ==
  Flatten([i \in 1..Len(ts) |-> IF ts[i] \in DOMAIN macros THEN macros[ts[i]]
                                 ELSE ts[i]])

\* definitions.sort(lambda x, y: x.lineno - y.lineno): a stable sort
RECURSIVE insert(_, _)
insert(sorted, d) ==
  IF sorted = <<>> THEN <<d>>
  ELSE IF sorted[Len(sorted)].lineno <= d.lineno THEN Append(sorted, d)
  ELSE Append(insert(SubSeq(sorted, 1, Len(sorted) - 1), d), sorted[Len(sorted)])

RECURSIVE sort(_)
sort(definitions) ==
  IF definitions = <<>> THEN <<>>
  ELSE insert(sort(SubSeq(definitions, 1, Len(definitions) - 1)),
              definitions[Len(definitions)])

\* output_lines that takes the definitions with a macro too
RECURSIVE output_lines_all(_, _, _, _)
output_lines_all(e, definitions, dent, macros) ==
  IF definitions = <<>> THEN e
  ELSE LET d == Head(definitions)
           text == dent \o d.type \o <<" ">> \o d.name \o <<";","\n">>
       IN  output_lines_all([e EXCEPT !.out = @ \o text], Tail(definitions),
                            dent, macros)

\* the first loop of output_decl: one declaration line per definition that is
\* not pre-defined and has no macro
RECURSIVE output_lines(_, _, _, _)
output_lines(e, definitions, dent, macros) ==
  IF definitions = <<>> THEN e
  ELSE LET d == Head(definitions)
           s0 == dent \o d.type \o
                 (IF Len(d.type) > 0 /\ d.type[Len(d.type)] = "*" THEN d.name
                  ELSE <<" ">> \o d.name)
           e1 == IF (d.lineno # -1 \/ Len(d.macro) > 0 \/ Len(d.init) > 0
                     \/ Len(d.fninit) > 0) /\ Len(d.macro) = 0
                 THEN IF Len(d.init) > 0
                      THEN print(print(e, <<>>),
                             <<s0 \o <<" ">> \o replaced(ctok(d.init).toks, macros)
                                  \o <<";">>>>)
                      ELSE print(e, <<s0 \o <<";">>>>)
                 ELSE e
       IN  output_lines(e1, Tail(definitions), dent, macros)

\* the second loop of output_decl: the fallback initialisation code
RECURSIVE output_fninit(_, _, _)
output_fninit(e, definitions, dent) ==
  IF definitions = <<>> THEN e
  ELSE LET d == Head(definitions)
           e1 == IF Len(d.fninit) > 0
                 THEN print(e, <<indent(dedent(d.fninit), Len(dent))>>)
                 ELSE e
       IN  output_fninit(e1, Tail(definitions), dent)

output_decl(e, definitions, dent, macros) ==
  LET sorted == sort(definitions)
  IN  output_fninit(output_lines(e, sorted, dent, macros), sorted, dent)

\* print_level that takes the statements of the level and of every level
\* above it
RECURSIVE print_level_atleast(_, _, _, _, _)
print_level_atleast(e, statements, level, dent, macros) ==
  IF statements = <<>> THEN e
  ELSE LET l == Head(statements)
           e2 == write(write(e, Repeat(" ", dent)),
                       Flatten([i \in 1..Len(ctok(l.text).toks) |->
                                  IF ctok(l.text).toks[i] \in DOMAIN macros
                                  THEN macros[ctok(l.text).toks[i]]
                                  ELSE ctok(l.text).toks[i]]))
       IN  IF l.level >= level
           THEN print_level_atleast([e2 EXCEPT !.out = @ \o <<"\n">>],
                                    Tail(statements), level, dent, macros)
           ELSE print_level_atleast(e, Tail(statements), level, dent, macros)

\* output statements that depend on level
RECURSIVE print_level(_, _, _, _, _)
print_level(e, statements, level, dent, macros) ==
  IF statements = <<>> THEN e
  ELSE LET l == Head(statements)
           closes == find(l.text, <<"}">>) >= 0 /\ find(l.text, <<"{">>) < 0
           opens == find(l.text, <<"{">>) >= 0 /\ find(l.text, <<"}">>) < 0
           dent1 == IF closes THEN dent - 4 ELSE dent
           e1 == write(e, Repeat(" ", dent1))
           e2 == write(e1, replaced(ctok(l.text).toks, macros))
       IN  IF l.level = level
           THEN print_level(print(e2, <<>>),
                            Tail(statements), level,
                            IF opens THEN dent1 + 4 ELSE dent1, macros)
           ELSE print_level(e, Tail(statements), level, dent, macros)

METRIC_NAME == <<"M","E","T","R","I","C","_","N","A","M","E">>

METRIC_DEPENDS_POST == <<"M","E","T","R","I","C","_","D","E","P","E","N","D","S","_","P","O","S","T">>

METRIC_PRE == <<"M","E","T","R","I","C","_","P","R","E">>

METRIC_POST == <<"M","E","T","R","I","C","_","P","O","S","T">>

METRIC_POST_PER_DOC == <<"M","E","T","R","I","C","_","P","O","S","T","_","P","E","R","_","D","O","C">>

METRIC_DECL == <<"M","E","T","R","I","C","_","D","E","C","L">>

METRIC_PER_CALL == <<"M","E","T","R","I","C","_","P","E","R","_","C","A","L","L">>

METRIC_PER_DOC == <<"M","E","T","R","I","C","_","P","E","R","_","D","O","C">>

METRIC_CONTRIB == <<"M","E","T","R","I","C","_","C","O","N","T","R","I","B">>

\* '/* template\n'  (a line of the template's first comment)
TL_head == <<"/","*"," ","t","e","m","p","l","a","t","e","\n">>

\* ' */\n'  (the line that ends the template's first comment)
TL_headend == <<" ","*","/","\n">>

\* ' x; (/* METRIC_NAME */)\n'  (a line without marker: its comment tokens are '(/*' and '*/)')
TL_plain == <<" ","x",";"," ","(","/","*"," ","M","E","T","R","I","C","_","N","A","M","E",
       " ","*","/",")","\n">>

\* ' n /*METRIC_NAME */ x\n'
TL_name == <<" ","n"," ","/","*","M","E","T","R","I","C","_","N","A","M","E"," ","*","/",
       " ","x","\n">>

\* '  /* METRIC_POST */\n'
TL_post == <<" "," ","/","*"," ","M","E","T","R","I","C","_","P","O","S","T"," ","*","/","\n">>

\* '  /* METRIC_POST_PER_DOC */\n'
TL_post_per_doc == <<" "," ","/","*"," ","M","E","T","R","I","C","_","P","O","S","T","_","P","E",
       "R","_","D","O","C"," ","*","/","\n">>

\* '  /* METRIC_PRE */\n'
TL_pre == <<" "," ","/","*"," ","M","E","T","R","I","C","_","P","R","E"," ","*","/","\n">>

\* '  /* METRIC_DECL */\n'
TL_decl == <<" "," ","/","*"," ","M","E","T","R","I","C","_","D","E","C","L"," ","*","/","\n">>

\* '  /* METRIC_PER_CALL */\n'
TL_per_call == <<" "," ","/","*"," ","M","E","T","R","I","C","_","P","E","R","_","C","A","L",
       "L"," ","*","/","\n">>

\* '  /* METRIC_PER_DOC */\n'
TL_per_doc == <<" "," ","/","*"," ","M","E","T","R","I","C","_","P","E","R","_","D","O","C",
       " ","*","/","\n">>

\* '  /* METRIC_CONTRIB */\n'
TL_contrib == <<" "," ","/","*"," ","M","E","T","R","I","C","_","C","O","N","T","R","I","B",
       " ","*","/","\n">>

(***************************************************************************)
(* Template weaving                                                        *)
(***************************************************************************)

\* the most lines a generated template holds
MaxTemplLines == 3

TemplLib == { TL_head, TL_headend, TL_plain, TL_name, TL_post, TL_post_per_doc }

\* the marker lines a template of family "E" holds one of, after the line
\* that ends its first comment
EMarkLib ==
  { TL_pre, TL_post, TL_post_per_doc, TL_decl, TL_per_call, TL_per_doc,
    TL_contrib }

\* the template every generated description is woven into
Template0 == << TL_headend, TL_name >>

\* the template of family "S": every marker once
TemplateAll ==
  << TL_headend, TL_pre, TL_decl, TL_per_call, TL_per_doc, TL_contrib, TL_post,
     TL_post_per_doc >>

\* the lines a template of the family may go on with after the lines t
tnextlines(family, t) ==
  IF family = "gen"
  THEN IF Len(t) < Len(Template0) THEN {Template0[Len(t) + 1]} ELSE {<<>>}
  ELSE IF family = "E"
  THEN IF t = <<>> THEN {TL_headend} ELSE IF Len(t) = 1 THEN EMarkLib ELSE {<<>>}
  ELSE IF family = "S"
  THEN IF Len(t) < Len(TemplateAll) THEN {TemplateAll[Len(t) + 1]} ELSE {<<>>}
  ELSE {<<>>} \cup (IF Len(t) >= MaxTemplLines THEN {} ELSE TemplLib)

\* what the iteration over the template may yield after the results `log'
treadline(log) ==
  IF log # <<>> /\ log[Len(log)] = <<>> THEN {<<>>}
  ELSE tnextlines(argv.family, log)

\* toks[1:]
rest(ts) == IF ts = <<>> THEN <<>> ELSE Tail(ts)

\* the definitions a marker hands to output_decl: the Decl of every used
\* name, in the order `keys' of the used-set's keys
definitions(d, keys) == [i \in 1..Len(keys) |-> d[keys[i]]]

(* The loop over the tokens of one template line.  `ukeys' gives the order *)
(* in which each used-set yields its keys.  A marker that looks up a used  *)
(* name missing from the namespace raises KeyError after its own line is   *)
(* printed.                                                                *)
RECURSIVE weave(_, _, _, _)
weave(e, ts, dent, ukeys) ==
  IF ts = <<>> \/ e.raised THEN e
  ELSE
  LET nt == next_tok(rest(ts))
      nnt == next_tok(rest(nt))
      marker(m) == ts[1] = <<"/","*">> /\ Len(nnt) > 0 /\ nnt[1] = <<"*","/">>
                   /\ nt[1] = m
      mark(m) == print(e, <<<<"/","*"," ">> \o m \o <<" ","*","/">>>>)
      after == rest(nnt)
  IN  IF marker(METRIC_NAME)
      THEN weave(printcomma(e, << <<"/","*"," ">> \o METRIC_NAME \o <<" ","*","/">>,
                                  name >>), after, dent, ukeys)
      ELSE IF marker(METRIC_DEPENDS_POST)
      THEN weave(printcomma(e, << <<"/","*"," ">> \o METRIC_DEPENDS_POST
                                    \o <<" ","*","/">>, str(Len(post)) >>),
                 after, dent, ukeys)
      ELSE IF marker(METRIC_PRE)
      THEN weave(printeach(mark(METRIC_PRE),
                           [i \in 1..Len(pre) |-> indent(pre[i], dent)]),
                 after, dent, ukeys)
      ELSE IF marker(METRIC_POST)
      THEN IF post_used \subseteq DOMAIN post_decl
           THEN weave(print_level(
                        output_decl(mark(METRIC_POST),
                                    definitions(post_decl, ukeys.post),
                                    Repeat(" ", dent),
                                    get_replace_map(post_decl, "macro")),
                        post, 1, dent, get_replace_map(post_decl, "macro")),
                      after, dent, ukeys)
           ELSE [mark(METRIC_POST) EXCEPT !.raised = TRUE]
      ELSE IF marker(METRIC_POST_PER_DOC)
      THEN weave(print_level(mark(METRIC_POST_PER_DOC), post, 2, dent,
                             get_replace_map(post_decl, "macro")),
                 after, dent, ukeys)
      ELSE IF marker(METRIC_DECL)
      THEN IF decode_used \subseteq DOMAIN decode_decl
           THEN weave(output_decl(mark(METRIC_DECL),
                                  definitions(decode_decl, ukeys.decode),
                                  Repeat(" ", dent),
                                  get_replace_map(decode_decl, "macro")),
                      after, dent, ukeys)
           ELSE [mark(METRIC_DECL) EXCEPT !.raised = TRUE]
      ELSE IF marker(METRIC_PER_CALL)
      THEN weave(print_level(mark(METRIC_PER_CALL), decode, 1, dent,
                             get_replace_map(decode_decl, "macro")),
                 after, dent, ukeys)
      ELSE IF marker(METRIC_PER_DOC)
      THEN weave(print_level(
                   print_level(mark(METRIC_PER_DOC), decode, 2, dent,
                               get_replace_map(decode_decl, "macro")),
                   decode, 3, dent, get_replace_map(decode_decl, "macro")),
                 after, dent, ukeys)
      ELSE IF marker(METRIC_CONTRIB)
      THEN weave(print_level(
                   print_level(mark(METRIC_CONTRIB), decode, 2, dent,
                               get_replace_map(decode_decl, "contrib_replace")),
                   decode, 3, dent, get_replace_map(decode_decl, "contrib_replace")),
                 after, dent, ukeys)
      ELSE weave(write(e, ts[1]), Tail(ts), dent, ukeys)

\* template = open(args[1]) and the generated header comment
OpenTemplate ==
  /\ pc = "template"
  /\ \/ \* IOError
        /\ errors' = Append(errors, Report("error opening file", 0))
        /\ exit(2)
        /\ UNCHANGED <<tstate, header, first>>
     \/ /\ tstate' = "open"
        /\ header' = [printed |-> TRUE, comments |-> comments]
        /\ first' = TRUE
        /\ pc' = "weave"
        /\ UNCHANGED <<status, errors>>
  /\ UNCHANGED <<argv, help, debug, name, tables, pre, file, fstate, line,
                 lineno, toks, body, template, stdout>>

\* one template line
WeaveLine ==
  /\ pc = "weave"
  /\ \E l \in treadline(template) \ {<<>>} :
       /\ template' = logged(template, l)
       /\ IF first
          THEN /\ first' = (find(l, <<"*","/">>) = -1)
               /\ UNCHANGED <<stdout, pc, status>>
          ELSE /\ first' = first
               /\ \E po \in orders(post_used), do \in orders(decode_used) :
                    LET e == weave(stdout, ctok(l).toks, leading(l),
                                   [post |-> po, decode |-> do])
                    IN  /\ stdout' = e
                        /\ IF e.raised THEN exit(1) ELSE UNCHANGED <<pc, status>>
  /\ UNCHANGED <<argv, help, debug, name, tables, pre, file, fstate, line,
                 lineno, toks, body, tstate, header, errors>>

\* the template is exhausted: the program ends
WeaveEnd ==
  /\ pc = "weave"
  /\ <<>> \in treadline(template)
  /\ template' = logged(template, <<>>)
  /\ exit(0)
  /\ UNCHANGED <<argv, help, debug, name, tables, pre, file, fstate, line,
                 lineno, toks, body, tstate, first, header, stdout, errors>>

Next ==
  \/ Startup
  \/ OpenMetric
  \/ TopLevelLine
  \/ ProcessDeclLine
  \/ LeveliseLine
  \/ LeveliseExtend
  \/ LeveliseAssign
  \/ Finish
  \/ OpenTemplate
  \/ WeaveLine
  \/ WeaveEnd

Spec == Init /\ [][Next]_vars

(* The program runs on as long as it has a step to take: WF_vars(Next),     *)
(* stated place by place.  Outside the loop of levelise that completes an  *)
(* assignment every step of a run that has not ended changes the state, so *)
(* there the program must go on stepping; inside that loop each of its two *)
(* steps is taken when it stays possible.                                  *)
FairSpec ==
  /\ Spec
  /\ []<>(pc \in {"extend", "exit"}) \/ []<><<Next>>_vars
  /\ WF_vars(LeveliseExtend)
  /\ WF_vars(LeveliseAssign)

(***************************************************************************)
(* levelise on a namespace that holds a quantity of level 6               *)
(***************************************************************************)

\* the pre-declared tables with the accumulator at level 6, the level
\* levelise tests for (lines 338 and 358); the main program registers it
\* with level 2 (line 545)
accumulator6 ==
  LET acc == <<"a","c","c","u","m","u","l","a","t","o","r">>
  IN  [predeclared EXCEPT !.post_decl = [@ EXCEPT ![acc].level = 6],
                          !.decode_decl = [@ EXCEPT ![acc].level = 6]]

\* the run of scenario A from its start, or a run of a generated description
\* at the first line of its post body, the accumulator at level 6
InitL ==
  \/ /\ Init
     /\ argv = [options |-> <<>>, args |-> <<arg_metric, arg_template>>,
                family |-> "A"]
  \/ /\ argv = [options |-> <<>>, args |-> <<arg_metric, arg_template>>,
                family |-> "gen"]
     /\ pc = "decl"
     /\ status = -1
     /\ help = FALSE
     /\ debug = FALSE
     /\ name = <<"b","m","2","5">>
     /\ params = accumulator6.params
     /\ post_decl = accumulator6.post_decl
     /\ post = <<>>
     /\ post_used = accumulator6.post_used
     /\ decode_decl = accumulator6.decode_decl
     /\ decode = <<>>
     /\ decode_used = accumulator6.decode_used
     /\ comments = <<>>
     /\ pre = <<>>
     /\ \E l \in BodyLib : line = l /\ file = <<L_post, l>>
     /\ fstate = "open"
     /\ lineno = 2
     /\ toks = <<>>
     /\ body = "post"
     /\ template = <<>>
     /\ tstate = "unopened"
     /\ first = TRUE
     /\ header = [printed |-> FALSE, comments |-> <<>>]
     /\ stdout = [out |-> <<>>, softspace |-> FALSE, raised |-> FALSE]
     /\ errors = <<>>

SpecL == InitL /\ [][Next]_vars

(***************************************************************************)
(* Properties                                                              *)
(***************************************************************************)

\* the diagnostics that carry a line of the description (#line, #error)
parse_errors == SelectSeq(errors, LAMBDA e : e.lineno > 0)

\* the message of the last diagnostic
lasterror == IF errors = <<>> THEN "" ELSE errors[Len(errors)].error

\* whether text t holds the text sub
contains(t, sub) == find(t, sub) >= 0

\* the description has been read to its end and closed
parsed == fstate = "closed"

\* the operand tokens of the statement with tokens ts: the right-hand side
\* of an assignment, every token of another statement
operands(d, ts) == IF isassignment(d, ts) THEN SubSeq(ts, 3, Len(ts)) ELSE ts

\* the level the name n of namespace k was declared with
declared_level(k, n) ==
  IF n \in DOMAIN predeclared[k] THEN predeclared[k][n].level ELSE decl_level

\* the assignments of list l have targets at or above their operands and at
\* or above the level of their declaration
targets_dominate(k, d, l) ==
  \A i \in 1..Len(l) :
    LET ts == ctok_nspace(l[i].text).toks
    IN  isassignment(d, ts) =>
          /\ d[ts[1]].level >= declared_level(k, ts[1])
          /\ \A j \in 3..Len(ts) :
               ts[j] \in DOMAIN d => d[ts[1]].level >= d[ts[j]].level

\* C1: once the description is parsed, the target of every assignment of a
\* body is at or above the level of every declared quantity on the
\* right-hand side and at or above the level it was declared with
C1_TargetLevelDominates ==
  parsed => /\ targets_dominate("decode_decl", decode_decl, decode)
            /\ targets_dominate("post_decl", post_decl, post)

\* some statement of list l has an operand of level 6
reads6(d, l) ==
  \E i \in 1..Len(l) :
    LET ts == operands(d, ctok_nspace(l[i].text).toks)
    IN  \E j \in 1..Len(ts) : ts[j] \in DOMAIN d /\ d[ts[j]].level = 6

\* the "accumulator used as rvalue" error has been printed
rvalue_reported ==
  \E i \in 1..Len(errors) : errors[i].error = "accumulator used as rvalue"

C3_FirstFailureWins ==
  /\ Len(parse_errors) <= 1
  /\ parse_errors # <<>> => pc = "exit" /\ status = 2

\* the loop of levelise that completes an assignment has read to the end of
\* the description and found no semi-colon
spinning ==
  /\ pc = "extend"
  /\ file[Len(file)] = <<>>
  /\ toks[Len(toks)] # <<";">>

\* C4: every run ends
C4_RunTerminates == <>(pc = "exit")

\* every run ends or comes to spin, and a run that spins goes on spinning
RunEndsOrSpins == <>(pc = "exit" \/ spinning)

SpinningForever == [][spinning => spinning']_vars

\* the line read is a declaration of a body that process_decl hands to
\* ins_decl
isbodydecl ==
  /\ pc = "decl"
  /\ line # <<>>
  /\ rstrip(line) # <<"}">>
  /\ Len(strip(line)) > 0
  /\ strip(line)[1] # "#"
  /\ isdecl(ctok_nspace(line).toks[1]) = 1

\* the line read is a parameter line that the main loop hands to ins_decl
isparameter ==
  /\ pc = "top"
  /\ Len(strip(line)) > 0
  /\ strip(line)[1] # "#"
  /\ Len(split(line)) > 1
  /\ split(line)[1] = kw_parameter
  /\ ~vnameLoop(Tail(split(line))).raised

\* the text handed to ins_decl and the namespaces it is to declare in
declline == IF pc = "top" THEN SliceFrom(line, Len(kw_parameter)) ELSE line

targets ==
  IF pc = "top" THEN {"params", "post_decl", "decode_decl"}
  ELSE {body \o "_decl"}

\* the tokens of a declaration after its comments and its type
decltoks(l) ==
  typeLoop(<<>>, ctok_nspace(rstrip(inlinecomment(trailing(l)).line)).toks)

\* the line read declares a name
named ==
  /\ isbodydecl \/ isparameter
  /\ ~decltoks(declline).raised
  /\ Len(decltoks(declline).toks) > 0

\* the line read declares a name that one of its namespaces holds
colliding ==
  /\ named
  /\ \E k \in targets : decltoks(declline).toks[1] \in DOMAIN tab[k]

\* the line read declares a new name and does not end with a semi-colon
unterminated ==
  /\ named
  /\ ~colliding
  /\ LET ts == decltoks(declline).toks IN ts[Len(ts)] # <<";">>

\* the run ends here with status 2 on the message m, no namespace and no
\* used-set changed
aborts(m) ==
  /\ Len(errors') > Len(errors)
  /\ errors'[Len(errors')] = Report(m, lineno)
  /\ pc' = "exit"
  /\ status' = 2
  /\ UNCHANGED <<params, post_decl, decode_decl, post_used, decode_used>>

\* C5: a declaration of a name that one of its target namespaces holds ends
\* the run with the duplicate declaration error and status 2, and leaves
\* every namespace and used-set as it was; the error is reported in no other
\* way
C5_DuplicateDeclarationAtomic ==
  [][ /\ colliding => aborts("duplicate declaration")
      /\ (Len(errors') > Len(errors)
          /\ errors'[Len(errors')].error = "duplicate declaration")
         => colliding /\ aborts("duplicate declaration") ]_vars

\* a parameter line was refused for a name that decode_decl holds and params
\* does not
C5_Witness ==
  /\ pc = "exit"
  /\ status = 2
  /\ lasterror = "duplicate declaration"
  /\ body = ""
  /\ LET ts == decltoks(SliceFrom(line, Len(kw_parameter))).toks
     IN  ts[1] \in DOMAIN decode_decl /\ ts[1] \notin DOMAIN params

\* C6: a declaration of a new name whose last token, comments apart, is not
\* a semi-colon ends the run with the missing terminator error and status 2,
\* and leaves every namespace and used-set as it was
C6_MissingTerminatorAborts ==
  [][ unterminated => aborts("declaration without semi-colon ending") ]_vars

\* a declaration was refused for its missing semi-colon
C6_Witness ==
  /\ pc = "exit"
  /\ status = 2
  /\ lasterror = "declaration without semi-colon ending"
  /\ ~contains(line, <<";">>)

\* the statements b are the statements a, their levels raised or kept
levels_raised(a, b) ==
  /\ Len(b) = Len(a)
  /\ \A i \in 1..Len(a) :
       /\ DOMAIN b[i] = DOMAIN a[i]
       /\ b[i].lineno = a[i].lineno
       /\ b[i].text = a[i].text
       /\ b[i].level >= a[i].level

\* C7: propagate keeps the number, the order, the line numbers and the text
\* of the statements, and lowers the level of none
C7_PropagateOnlyRaisesLevels ==
  [][ Finish => /\ levels_raised(post, post')
                /\ levels_raised(decode, decode') ]_vars

\* propagate has raised a closing brace of the decode body above level 1
C7_Witness ==
  /\ parsed
  /\ \E i \in 1..Len(decode) : decode[i].text = <<"}">> /\ decode[i].level > 1

\* the template line l has been woven: it was read after a line that ends
\* the template's first comment
woven(l) ==
  \E i \in 1..Len(template) :
    /\ template[i] = l
    /\ \E j \in 1..(i - 1) : contains(template[j], <<"*","/">>)

\* 'float s;\n' under the METRIC_POST marker
A_declaration ==
  <<" "," ","/","*"," ","M","E","T","R","I","C","_","P","O","S","T"," ","*","/","\n",
  " "," ","f","l","o","a","t"," ","s",";","\n">>

\* the statement of scenario A, its quantities replaced by their macros, under
\* the METRIC_POST_PER_DOC marker
A_statement ==
  <<" "," ","/","*"," ","M","E","T","R","I","C","_","P","O","S","T","_","P","E","R",
  "_","D","O","C"," ","*","/","\n"," "," ","s"," ","="," ","(","o","p","t","-",">",
  "u",".","b","m","2","5",".","k","1",")"," ","*"," ","(","a","c","c","-",">","a",
  "c","c",".","w","e","i","g","h","t",")",";","\n">>

\* the statement of scenario A from its assignment operator on
A_assigned == <<"s"," ","="," ","(">>

\* a run of scenario A whose files open
scenarioA ==
  /\ argv.family = "A"
  /\ fstate # "unopened"

\* C8: in scenario A the run succeeds whenever the template opens, s and the
\* statement have level 2, float s; is emitted under METRIC_POST, and the
\* statement is emitted with the macros of k1 and accumulator in
\* parentheses under METRIC_POST_PER_DOC and nowhere else
C8_ScenarioA ==
  scenarioA =>
    /\ pc = "exit" => status = 0 \/ lasterror = "error opening file"
    /\ parsed =>
         /\ post_decl[<<"s">>].level = 2
         /\ post = <<Statement(6, 2, Slice(L_stmt_A, 0, -1))>>
         /\ decode = <<>>
    /\ (pc = "exit" /\ status = 0 /\ ~debug) =>
         /\ woven(TL_post) => contains(stdout.out, A_declaration)
         /\ woven(TL_post_per_doc) => contains(stdout.out, A_statement)
         /\ ~woven(TL_post_per_doc) => ~contains(stdout.out, A_assigned)

\* scenario A has run to its end on a template with both markers
C8_Witness ==
  /\ scenarioA
  /\ pc = "exit"
  /\ status = 0
  /\ woven(TL_post)
  /\ woven(TL_post_per_doc)
  /\ contains(stdout.out, A_statement)

\* the marker identifiers
markers ==
  { METRIC_NAME, METRIC_DEPENDS_POST, METRIC_PRE, METRIC_POST,
    METRIC_POST_PER_DOC, METRIC_DECL, METRIC_PER_CALL, METRIC_PER_DOC,
    METRIC_CONTRIB }

\* a marker triple starts at token i of ts: its identifier, or nothing
markerat(ts, i) ==
  LET nt == next_tok(SubSeq(ts, i + 1, Len(ts)))
      nnt == IF Len(nt) > 0 THEN next_tok(Tail(nt)) ELSE <<>>
  IN  IF ts[i] = <<"/","*">> /\ Len(nnt) > 0 /\ nnt[1] = <<"*","/">>
         /\ nt[1] \in markers
      THEN nt[1] ELSE <<>>

\* the places of ts where a marker triple starts
triples(ts) == { i \in 1..Len(ts) : markerat(ts, i) # <<>> }

\* the tokens of ts from a to b, one after the other
span(ts, a, b) == Flatten(SubSeq(ts, a, b))

\* the token after the triple that starts at token i of ts
aftertriple(ts, i) ==
  LET nt == next_tok(SubSeq(ts, i + 1, Len(ts)))
      nnt == next_tok(Tail(nt))
  IN  Len(ts) - Len(nnt) + 2

\* t ends with the text s
endswith(t, s) == Len(t) >= Len(s) /\ SubSeq(t, Len(t) - Len(s) + 1, Len(t)) = s

\* t starts with the text s
startswith(t, s) == Len(t) >= Len(s) /\ SubSeq(t, 1, Len(s)) = s

\* what weaving the line l has to add to the output `before' to give `after'
copied(l, before, after) ==
  LET ts == ctok(l).toks
      tr == triples(ts)
      lo == CHOOSE i \in tr : \A j \in tr : i <= j
      hi == CHOOSE i \in tr : \A j \in tr : j <= i
  IN  IF tr = {} THEN after.out = before.out \o l
      ELSE /\ startswith(after.out, before.out \o span(ts, 1, lo - 1))
           /\ after.raised \/
                endswith(after.out, span(ts, aftertriple(ts, hi), Len(ts)))
           /\ (Cardinality(tr) = 1 /\ markerat(ts, lo) = METRIC_NAME) =>
                after.out = before.out \o span(ts, 1, lo - 1)
                              \o <<"/","*"," ">> \o METRIC_NAME
                              \o <<" ","*","/"," ">> \o name
                              \o span(ts, aftertriple(ts, lo), Len(ts))

\* C9: of a template line after the header, the tokens outside the marker
\* triples reach the output unchanged and in order (a line without marker
\* as it is), and a METRIC_NAME marker gives the base name of the
\* description
C9_TemplateTokensCopied ==
  [][ (pc = "weave" /\ ~first /\ Len(template') > Len(template)
       /\ template'[Len(template')] # <<>>)
      => copied(template'[Len(template')], stdout, stdout') ]_vars

\* a line without marker and a line with the METRIC_NAME marker have been
\* woven
C9_Witness ==
  /\ pc = "exit"
  /\ status = 0
  /\ woven(TL_plain)
  /\ woven(TL_name)
  /\ contains(stdout.out, Slice(TL_plain, 0, -1))
  /\ contains(stdout.out, <<"/","*"," ">> \o METRIC_NAME \o <<" ","*","/"," ">>
                            \o <<"b","m","2","5">>)

\* C10: generated text is written only once the description has been read
\* to its end without an error and the template has been opened
C10_NoPartialOutput ==
  (header.printed \/ stdout.out # <<>>) =>
    /\ parsed
    /\ tstate = "open"
    /\ parse_errors = <<>>

\* a usage error, an error of the description or an I/O error has been
\* reported
failed ==
  \E i \in 1..Len(errors) :
    \/ errors[i].lineno > 0
    \/ errors[i].error \in {"usage", "error opening file"}

\* C11: a run ends with status 2 exactly when a usage, parse or I/O error
\* occurred, and with status 0 when none did (a compile, a --debug dump,
\* --version, --help)
C11_ExitStatus ==
  pc = "exit" => /\ status = 2 <=> failed
                 /\ ~failed => status = 0

\* the level of the quantity n of namespace d', when d holds it, is not
\* below its level in d
levels_kept(d, e) ==
  \A n \in DOMAIN d : n \in DOMAIN e => e[n].level >= d[n].level

\* the statement last appended to the list l
appended(l) == l[Len(l)]

\* C12: no step of levelise lowers the level of a declaration, and an
\* assignment leaves its target at the higher of its level before and the
\* level computed for the statement
C12_LevelNeverDecreases ==
  [][ /\ levels_kept(post_decl, post_decl')
      /\ levels_kept(decode_decl, decode_decl')
      /\ LeveliseAssign =>
           decl'[toks[1]].level = Max(decl[toks[1]].level, appended(list').level)
    ]_vars

\* the line l opens a body
isheader(l) ==
  /\ Len(split(l)) = 2
  /\ split(l)[2] = <<"{">>
  /\ split(l)[1] \in { <<"p","o","s","t","(",")">>, <<"d","e","c","o","d","e","(",")">> }

\* the line l is one that process_decl takes: empty, a comment or a
\* declaration
isdeclarative(l) ==
  \/ Len(strip(l)) = 0
  \/ strip(l)[1] = "#"
  \/ isdecl(ctok_nspace(l).toks[1]) = 1

\* the lines levelise has read in the body it is in: those after the
\* body's opening line and its declarations, before the line it is at
statementlines ==
  LET h == CHOOSE i \in 1..Len(file) :
             isheader(file[i]) /\ \A j \in (i + 1)..Len(file) : ~isheader(file[j])
      s == CHOOSE i \in (h + 1)..Len(file) :
             ~isdeclarative(file[i]) /\ \A j \in (h + 1)..(i - 1) : isdeclarative(file[j])
  IN  SubSeq(file, s, Len(file) - 1)

\* levelise has come to the end of a body with statements, here at the `}'
\* line or at the end of the file
levelised ==
  /\ pc = "stmt"
  /\ line = <<>> \/ rstrip(line) = <<"}">>
  /\ list # <<>>

\* levelise once more over the statements of the body, from the levels the
\* body's namespace has now
relevelised ==
  levelise(statementlines, 0,
           [decl |-> decl, used |-> {}, list |-> <<>>, printed |-> <<>>,
            spins |-> FALSE])

\* C13: a second run of levelise over the same statement lines, from the
\* levels the first run left, gives every statement and every declaration
\* the level the first run gave it
C13_LeveliseIdempotent ==
  levelised =>
    /\ ~relevelised.spins
    /\ Len(relevelised.list) = Len(list)
    /\ \A i \in 1..Len(list) : relevelised.list[i].level = list[i].level
    /\ \A n \in DOMAIN decl : relevelised.decl[n].level = decl[n].level

\* the template line l is the last one woven, and woven to its end
lastwoven(l) ==
  /\ pc \in {"weave", "exit"}
  /\ ~stdout.raised
  /\ LET t == SelectSeq(template, LAMBDA x : x # <<>>)
     IN  /\ Len(t) > 1
         /\ t[Len(t)] = l
         /\ \E j \in 1..(Len(t) - 1) : contains(t[j], <<"*","/">>)

\* the lines of the output, their indentation dropped
outlines ==
  LET ls == splitOn(stdout.out, "\n")
  IN  [i \in 1..Len(ls) |-> lstrip(ls[i])]

\* the statements of list l that have level k, as they are emitted with the
\* macros of namespace d
atlevel(l, k, d) ==
  LET sel == SelectSeq(l, LAMBDA st : st.level = k)
  IN  [i \in 1..Len(sel) |->
         replaced(ctok(sel[i].text).toks, get_replace_map(d, "macro"))]

\* the comment a marker line leaves in the output
markcomment(m) == <<"/","*"," ">> \o m \o <<" ","*","/">>

\* what is left of the line after the marker: its newline
lineend == << <<>>, <<>> >>

\* the sequence l ends with the sequence t
endsin(l, t) == Len(l) >= Len(t) /\ SubSeq(l, Len(l) - Len(t) + 1, Len(l)) = t

\* the output ends with what a marker line gives: the marker's comment m,
\* then lines that are none of `others', then the lines `last'
marked(m, others, last) ==
  LET out == outlines
      at == { i \in 1..Len(out) : out[i] = markcomment(m) }
      from == CHOOSE i \in at : \A j \in at : j <= i
  IN  /\ at # {}
      /\ endsin(out, last \o lineend)
      /\ Len(out) - from >= Len(last) + Len(lineend)
      /\ \A i \in (from + 1)..(Len(out) - Len(last) - Len(lineend)) :
           \A j \in 1..Len(others) : out[i] # others[j]

\* C14: METRIC_PER_DOC emits the decode statements of level 2 in source
\* order, then those of level 3 in source order, and nothing else;
\* METRIC_PER_CALL the decode statements of level 1, METRIC_POST_PER_DOC
\* the post statements of level 2, and METRIC_POST ends with the post
\* statements of level 1 and emits no post statement of another level
C14_MarkersEmitLevels ==
  /\ lastwoven(TL_per_doc) =>
       endsin(outlines, <<markcomment(METRIC_PER_DOC)>>
                          \o atlevel(decode, 2, decode_decl)
                          \o atlevel(decode, 3, decode_decl) \o lineend)
  /\ lastwoven(TL_per_call) =>
       endsin(outlines, <<markcomment(METRIC_PER_CALL)>>
                          \o atlevel(decode, 1, decode_decl) \o lineend)
  /\ lastwoven(TL_post_per_doc) =>
       endsin(outlines, <<markcomment(METRIC_POST_PER_DOC)>>
                          \o atlevel(post, 2, post_decl) \o lineend)
  /\ lastwoven(TL_post) =>
       marked(METRIC_POST,
              atlevel(post, 2, post_decl) \o atlevel(post, 3, post_decl),
              atlevel(post, 1, post_decl))

\* METRIC_PER_DOC has been woven for a decode body with a statement of
\* level 3 before one of level 2 and one of level 1 after them
C14_Witness ==
  /\ pc = "exit"
  /\ status = 0
  /\ woven(TL_per_doc)
  /\ Len(decode) = 3
  /\ decode[1].level = 3
  /\ decode[2].level = 2
  /\ decode[3].level = 1
  /\ contains(stdout.out, <<"a","c","c","-",">","a","c","c",".","d","o","c","n","o",")",")",";","\n",
                            " "," ","s"," ","="," ","f","_","d","t",";","\n">>)

\* the decode statements METRIC_PER_DOC and METRIC_CONTRIB emit
perdoc == SelectSeq(decode, LAMBDA st : st.level = 2)
            \o SelectSeq(decode, LAMBDA st : st.level = 3)

\* the token t names a quantity of decode with a contribution expression
hascontrib(t) == t \in DOMAIN decode_decl /\ Len(decode_decl[t].contrib) > 0

\* what METRIC_PER_DOC writes for the token t of a statement
perdoc_token(t) ==
  IF t \in DOMAIN decode_decl /\ Len(decode_decl[t].macro) > 0
  THEN <<"(">> \o decode_decl[t].macro \o <<")">> ELSE t

\* what METRIC_CONTRIB writes for it
contrib_token(t) ==
  IF hascontrib(t) THEN <<"(">> \o decode_decl[t].contrib \o <<")">>
  ELSE perdoc_token(t)

\* the lines METRIC_PER_DOC gives for the tables as they are, their
\* indentation dropped
perdoc_lines ==
  LET e == weave([out |-> <<>>, softspace |-> FALSE, raised |-> FALSE],
                 ctok(TL_per_doc).toks, leading(TL_per_doc),
                 [post |-> <<>>, decode |-> <<>>])
      ls == splitOn(e.out, "\n")
  IN  [i \in 1..Len(ls) |-> lstrip(ls[i])]

\* C15: METRIC_CONTRIB emits the statements METRIC_PER_DOC emits, in the
\* same order; a token that names a quantity with a contribution
\* expression is written as that expression in parentheses, every other
\* token as METRIC_PER_DOC writes it (its macro in parentheses, or the
\* token itself); with no such token the two emissions are the same
C15_ContribFollowsPerDoc ==
  lastwoven(TL_contrib) =>
    LET toks_of(i) == ctok(perdoc[i].text).toks
        pd == [i \in 1..Len(perdoc) |->
                 Flatten([j \in 1..Len(toks_of(i)) |-> perdoc_token(toks_of(i)[j])])]
        co == [i \in 1..Len(perdoc) |->
                 Flatten([j \in 1..Len(toks_of(i)) |-> contrib_token(toks_of(i)[j])])]
    IN  /\ perdoc_lines = <<markcomment(METRIC_PER_DOC)>> \o pd \o lineend
        /\ endsin(outlines, <<markcomment(METRIC_CONTRIB)>> \o co \o lineend)
        /\ (\A i \in 1..Len(perdoc) : \A j \in 1..Len(toks_of(i)) :
              ~hascontrib(toks_of(i)[j]))
           => endsin(outlines, Tail(perdoc_lines))

\* METRIC_CONTRIB has been woven for statements that name D_terms, which
\* has a contribution expression, and accumulator, which has a macro only
C15_Witness ==
  /\ pc = "exit"
  /\ status = 0
  /\ lastwoven(TL_contrib)
  /\ contains(stdout.out, <<"s"," ","="," ","(","(","(","f","l","o","a","t",")"," ",
                            "a","v","g","_","D","_","t","e","r","m","s",")",")",";","\n">>)
  /\ contains(stdout.out, <<"(","a","c","c","-",">","a","c","c",".","w","e","i","g","h","t",")",
                            " ","+","="," ","s",";","\n">>)

\* the text of a statement as it is to be emitted with the macros of the
\* namespace d: each token that names a quantity with a macro gives the
\* macro in parentheses, every other token itself
substituted(d, text) ==
  LET ts == ctok(text).toks
  IN  Flatten([j \in 1..Len(ts) |->
                 IF ts[j] \in DOMAIN d /\ Len(d[ts[j]].macro) > 0
                 THEN <<"(">> \o d[ts[j]].macro \o <<")">> ELSE ts[j]])

\* the statements of list l at the levels ks, one level after the other,
\* each as substituted gives it
substitutedat(l, ks, d) ==
  LET sel == Flatten([k \in 1..Len(ks) |-> SelectSeq(l, LAMBDA st : st.level = ks[k])])
  IN  [i \in 1..Len(sel) |-> substituted(d, sel[i].text)]

\* the lines print_level gives for the statements of list l at level k
\* with no macro at all, their indentation dropped
unsubstituted(l, k) ==
  LET e == print_level([out |-> <<>>, softspace |-> FALSE, raised |-> FALSE],
                       l, k, 0, <<>>)
      ls == splitOn(e.out, "\n")
  IN  [i \in 1..Len(ls) |-> lstrip(ls[i])]

\* the texts of the statements of list l at level k
textsat(l, k) ==
  LET sel == SelectSeq(l, LAMBDA st : st.level = k)
  IN  [i \in 1..Len(sel) |-> sel[i].text]

\* C16: an emitted statement is its recorded text with each token that
\* names a quantity with a macro replaced by the macro in parentheses,
\* every other token, whitespace too, as it is, and the macro's own text
\* not replaced again; with no macro at all it is the recorded text
C16_MacroSubstitution ==
  /\ lastwoven(TL_per_call) =>
       endsin(outlines, <<markcomment(METRIC_PER_CALL)>>
                          \o substitutedat(decode, <<1>>, decode_decl) \o lineend)
  /\ lastwoven(TL_per_doc) =>
       endsin(outlines, <<markcomment(METRIC_PER_DOC)>>
                          \o substitutedat(decode, <<2, 3>>, decode_decl) \o lineend)
  /\ lastwoven(TL_post_per_doc) =>
       endsin(outlines, <<markcomment(METRIC_POST_PER_DOC)>>
                          \o substitutedat(post, <<2>>, post_decl) \o lineend)
  /\ lastwoven(TL_post) =>
       endsin(outlines, substitutedat(post, <<1>>, post_decl) \o lineend)
  /\ pc = "template" =>
       \A k \in 1..3 :
         /\ unsubstituted(decode, k) = textsat(decode, k) \o <<<<>>>>
         /\ unsubstituted(post, k) = textsat(post, k) \o <<<<>>>>

\* a statement that names k1 has been emitted, the macro of k1, which holds
\* the token k1, in its place
C16_Witness ==
  /\ argv.family = "E"
  /\ pc = "exit"
  /\ lastwoven(TL_post_per_doc)
  /\ post = <<Statement(11, 2, Slice(L_stmt_A, 0, -1))>>
  /\ endsin(outlines,
            << <<"s"," ","="," ","(","o","p","t","-",">","u",".","b","m","2","5",".","k","1",")",
                 " ","*"," ","(","a","c","c","-",">","a","c","c",".","w","e","i","g","h","t",")",";">>
            >> \o lineend)

\* the names of the used-set u that output_decl is handed a declaration
\* of namespace d for
usednames(d, u) == u \cap DOMAIN d

\* the declaration x is one output_decl writes a line for: it has no macro,
\* and it is declared in the description or has an initialiser or
\* initialisation code
isrendered(x) ==
  /\ Len(x.macro) = 0
  /\ x.lineno # -1 \/ Len(x.init) > 0 \/ Len(x.fninit) > 0

\* type name;  or an empty line and  type name = init;
rendering(d, x) ==
  LET head == x.type \o (IF Len(x.type) > 0 /\ x.type[Len(x.type)] = "*"
                         THEN x.name ELSE <<" ">> \o x.name)
  IN  IF Len(x.init) > 0
      THEN << <<>>, head \o <<" ">> \o substituted(d, x.init) \o <<";">> >>
      ELSE << head \o <<";">> >>

\* the lines of the initialisation code of x, their indentation dropped
fninitlines(x) ==
  LET ls == splitOn(x.fninit, "\n")
  IN  IF Len(x.fninit) = 0 THEN <<>> ELSE [i \in 1..Len(ls) |-> lstrip(ls[i])]

\* what output_decl gives for the used names in the order o: the lines of
\* the declarations, then the initialisation code
declarations(d, o) ==
  Flatten([i \in 1..Len(o) |-> IF isrendered(d[o[i]]) THEN rendering(d, d[o[i]])
                                ELSE <<>>])
    \o Flatten([i \in 1..Len(o) |-> fninitlines(d[o[i]])])

\* the orders of the used names by non-decreasing line number
bylineno(d, u) ==
  { o \in orders(usednames(d, u)) :
      \A i \in 1..(Len(o) - 1) : d[o[i]].lineno <= d[o[i + 1]].lineno }

declared(m, x) ==
  LET out == outlines
      at == { i \in 1..Len(out) : out[i] = markcomment(m) }
  IN  \E i \in 1..Len(out) :
        /\ \E j \in at : j < i
        /\ startswith(out[i], x.type \o <<" ">> \o x.name)

withpre(d, u) == { n \in DOMAIN d : n \in u /\ Len(d[n].pre) > 0 }

\* some statement of list l holds the name n as a token
referenced(l, n) ==
  \E i \in 1..Len(l) :
    LET ts == ctok_nspace(l[i].text).toks
    IN  \E j \in 1..Len(ts) : ts[j] = n

\* how many of the names ns of namespace d have the pre-requisite code c
havingpre(d, ns, c) == Cardinality({ n \in ns : d[n].pre = c })

tokclass(tok) ==
  IF \A i \in 1..Len(tok) : isspace(tok[i]) THEN "space"
  ELSE IF \A i \in 1..Len(tok) : isop(tok[i]) = 1 THEN "op"
  ELSE IF tok = <<";">> THEN "semi"
  ELSE IF \A i \in 1..Len(tok) :
            ~isspace(tok[i]) /\ isop(tok[i]) = 0 /\ tok[i] # ";" THEN "word"
  ELSE "mixed"

\* r, a pair of a token list and an offset list, is the tokenisation of l
tokenised(l, r) ==
  /\ Flatten(r.toks) = l
  /\ Len(r.chars) = Len(r.toks)
  /\ \A i \in 1..Len(r.toks) :
       /\ Len(r.toks[i]) > 0
       /\ tokclass(r.toks[i]) # "mixed"
       /\ r.chars[i] = Len(Flatten(SubSeq(r.toks, 1, i - 1)))
       /\ SubSeq(l, r.chars[i] + 1, r.chars[i] + Len(r.toks[i])) = r.toks[i]
  /\ \A i \in 1..(Len(r.toks) - 1) :
       tokclass(r.toks[i]) = tokclass(r.toks[i + 1])
         => tokclass(r.toks[i]) = "semi"

\* n holds the tokens of r that are not whitespace, in r's order, each with
\* the offset it has in r
nonspace(r, n) ==
  LET keep == { i \in 1..Len(r.toks) : tokclass(r.toks[i]) # "space" }
  IN  /\ Len(n.toks) = Cardinality(keep)
      /\ Len(n.chars) = Cardinality(keep)
      /\ \A i \in keep :
           LET k == Cardinality({ j \in keep : j <= i })
           IN  n.toks[k] = r.toks[i] /\ n.chars[k] = r.chars[i]

\* the lines the program has in hand: the description line just read and
\* the template line just read
inhand ==
  {line} \cup (IF template = <<>> THEN {} ELSE {template[Len(template)]})

\* C19: for the description line and the template line in hand, the tokens
\* of ctok concatenate to the line, each token is non-empty, of one class
\* (whitespace, operator symbols, one `;', or a word with none of these)
\* and paired with the offset where it starts; adjacent tokens are of
\* different classes unless both are `;'; and ctok_nspace gives the tokens
\* that are not whitespace, in order, with the same offsets
C19_TokensPartitionLine ==
  \A l \in inhand :
    /\ tokenised(l, ctok(l))
    /\ nonspace(ctok(l), ctok_nspace(l))

\* the statement `accumulator += s;' has been tokenised: a word, a
\* two-character operator token, a terminator and whitespace tokens, which
\* ctok_nspace dropped
C19_Witness ==
  /\ pc = "extend"
  /\ toks = ctok_nspace(line).toks
  /\ LET r == ctok(line)
     IN  /\ \E i \in 1..Len(r.toks) :
              tokclass(r.toks[i]) = "op" /\ Len(r.toks[i]) = 2
         /\ \E i \in 1..Len(r.toks) : tokclass(r.toks[i]) = "semi"
         /\ \E i \in 1..Len(r.toks) :
              tokclass(r.toks[i]) = "word" /\ Len(r.toks[i]) > 1
         /\ Len(toks) < Len(r.toks)
         /\ toks[Len(toks)] = <<";">>
         /\ ctok_nspace(line).chars[Len(toks)] = Len(line) - 2

\* C20: when the process exits, the description file and the template file
\* are each either never opened or closed
C20_StreamsClosedAtExit ==
  pc = "exit" =>
    /\ fstate \in {"unopened", "closed"}
    /\ tstate \in {"unopened", "closed"}

\* the statement s opens a block: its text has `{' and no `}'
opens(s) == find(s.text, <<"{">>) >= 0 /\ find(s.text, <<"}">>) < 0

\* the statement s closes a block: its text has `}' and no `{'
closes(s) == find(s.text, <<"}">>) >= 0 /\ find(s.text, <<"{">>) < 0

\* propagate took the list l to the list m, and every opening statement of
\* m has the higher of the level it had in l and the level that the
\* statement after it has in m
inherits_following(l, m) ==
  /\ Len(m) = Len(l)
  /\ \A i \in 1..Len(l) :
       opens(l[i]) =>
         m[i].level = Max(l[i].level, IF i < Len(l) THEN m[i + 1].level ELSE 0)

\* C21: the step that ends the description leaves every statement that has
\* `{' and no `}' at the higher of its own level and the level of the
\* statement that follows it in the list
C21_OpeningInheritsFollowing ==
  [][ Finish => /\ inherits_following(post, post')
                /\ inherits_following(decode, decode')
    ]_vars

\* a block of the list l without nesting: an opening statement at i, a
\* closing statement at k, and no brace in the statements between them
block(l, i, k) ==
  /\ i < k
  /\ opens(l[i])
  /\ closes(l[k])
  /\ \A j \in (i + 1)..(k - 1) :
       find(l[j].text, <<"{">>) < 0 /\ find(l[j].text, <<"}">>) < 0

\* the opening and the closing statement of every block of l without
\* nesting are at or above the level of every statement of the block's body
blocks_cover(l) ==
  \A i \in 1..Len(l) : \A k \in 1..Len(l) :
    block(l, i, k) =>
      \A j \in (i + 1)..(k - 1) :
        l[i].level >= l[j].level /\ l[k].level >= l[j].level

\* C22: once the description is parsed and propagate has run, the opening
\* line and the closing line of every braced block without nesting have a
\* level at or above that of every statement of the block's body
C22_BlockEnclosesBody ==
  parsed => blocks_cover(post) /\ blocks_cover(decode)

\* the statement s of a body with namespace d assigns to a pre-declared
\* quantity whose type begins with `const'
assignsconst(d, s) ==
  LET ts == ctok_nspace(s.text).toks
  IN  /\ isassignment(d, ts)
      /\ d[ts[1]].lineno = -1
      /\ Slice(d[ts[1]].type, 0, 5) = kw_const

\* C23: no assignment to a pre-declared quantity of const type is ever
\* recorded in a statement list
C23_ConstAssignmentRejected ==
  /\ \A i \in 1..Len(post) : ~assignsconst(post_decl, post[i])
  /\ \A i \in 1..Len(decode) : ~assignsconst(decode_decl, decode[i])

\* the identifiers of the contribution text of the pre-declared quantity b
\* that are keys of the first namespace b is inserted into
fallbacknames(b) ==
  LET ts == ctok_nspace(b.contrib).toks
  IN  { ts[i] : i \in 1..Len(ts) } \cap DOMAIN tab[b.namespaces[1]]

\* C24: once the pre-declared quantities are inserted, every identifier of
\* a quantity's contribution text that is a key of the first namespace of
\* the call is in the first used-set of the call
C24_FallbackNamesUsed ==
  decode_decl # <<>> =>
    \A i \in 1..Len(Builtins) :
      fallbacknames(Builtins[i]) \subseteq tab[Builtins[i].used[1]]

\* C25: each body's used-set holds only keys of that body's namespace, and
\* no marker has looked up a used name missing from the namespace
C25_UsedNamesDeclared ==
  /\ post_used \subseteq DOMAIN post_decl
  /\ decode_used \subseteq DOMAIN decode_decl
  /\ ~stdout.raised

\* every key that namespace e has and namespace d lacks is at level k in e
newat(d, e, k) == \A n \in DOMAIN e : n \notin DOMAIN d => e[n].level = k

\* C26: every declaration that a step of process_decl adds to the
\* namespace of a body has level 2 when the step is over
C26_LocalsDeclaredAtLevelTwo ==
  [][ ProcessDeclLine => /\ newat(post_decl, post_decl', 2)
                         /\ newat(decode_decl, decode_decl', 2)
    ]_vars

\* the end of the description has been read inside a body
eofinbody ==
  /\ body # ""
  /\ file # <<>>
  /\ file[Len(file)] = <<>>

\* the run has ended on an unexpected-EOF report with status 2 and no
\* generated code
eofreported ==
  /\ pc = "exit"
  /\ status = 2
  /\ errors # <<>>
  /\ contains(errors[Len(errors)].error, "unexpected EOF")
  /\ ~header.printed
  /\ stdout.out = <<>>

\* C27: when the end of the description is read inside a decode or post
\* body, the run comes to report an unexpected EOF and to exit with status
\* 2, with no generated code
C27_EOFInBodyReported == eofinbody ~> eofreported

\* the keys of namespace d among the tokens ts
names(d, ts) == { ts[i] : i \in 1..Len(ts) } \cap DOMAIN d

\* the highest level that namespace d holds for a token of ts, 1 if it
\* holds none of them
maxlevel(d, ts) ==
  LET ls == { d[n].level : n \in names(d, ts) } \cup {1}
  IN  CHOOSE m \in ls : \A x \in ls : x <= m

\* a step that appends a statement that is no comment to the list l (l2
\* after the step) of the body with namespace d and used-set u (u2 after
\* the step) gives it the highest level, in d, of its operands, and adds
\* to the used-set the keys of d among its tokens and nothing else
recorded(d, u, u2, l, l2) ==
  (Len(l2) = Len(l) + 1 /\ strip(line)[1] # "#") =>
    LET st == appended(l2)
        ts == ctok_nspace(st.text).toks
    IN  /\ st.level = maxlevel(d, operands(d, ts))
        /\ u2 = u \cup names(d, ts)

\* C28: every statement is recorded with the highest level that the
\* declarations have, when it is processed, among the quantities it
\* references (after the operator for an assignment to a declared name,
\* anywhere in it otherwise), 1 when it references none; the used-set
\* gains the declared names it references, and no other name
C28_StatementLevel ==
  [][ /\ recorded(post_decl, post_used, post_used', post, post')
      /\ recorded(decode_decl, decode_used, decode_used', decode, decode')
    ]_vars

\* decode holds `s = f_dt;' at level 3, then ` if (s) {' at the level 3
\* that s has by then, then `s = k1 * accumulator;' at level 2, k1 being no
\* declared name and not in the used-set
C28_Witness ==
  /\ Len(decode) >= 3
  /\ decode[1].text = strip(L_stmt_f_dt) /\ decode[1].level = 3
  /\ decode[2].text = strip(L_stmt_open) /\ decode[2].level = 3
  /\ decode[3].text = strip(L_stmt_A) /\ decode[3].level = 2
  /\ <<"k","1">> \notin DOMAIN decode_decl
  /\ decode_used = { <<"s">>, <<"f","_","d","t">>,
                     <<"a","c","c","u","m","u","l","a","t","o","r">> }

\* some name that the namespaces d and e both hold has another level in e
relevelled(d, e) ==
  \E n \in DOMAIN d : n \in DOMAIN e /\ e[n].level # d[n].level

\* C29: a step that changes the level of a quantity in the namespace of one
\* body leaves the level of every quantity of the other body's namespace
\* and of the parameter namespace as it was
C29_NamespacesIsolated ==
  [][ /\ relevelled(decode_decl, decode_decl') =>
           ~relevelled(post_decl, post_decl') /\ ~relevelled(params, params')
      /\ relevelled(post_decl, post_decl') =>
           ~relevelled(decode_decl, decode_decl') /\ ~relevelled(params, params')
    ]_vars

\* the parameter k1 was assigned in decode and read in post: it is at
\* level 3 in decode's namespace and still at level 1 in post's and in the
\* parameters', and post's statement has the level 2 of accumulator
C29_Witness ==
  LET k1 == <<"k","1">>
  IN  /\ parsed
      /\ k1 \in DOMAIN params
      /\ decode_decl[k1].level = 3
      /\ post_decl[k1].level = 1
      /\ params[k1].level = 1
      /\ Len(post) = 1
      /\ post[1].text = strip(L_stmt_A)
      /\ post[1].level = 2

\* the comments the markers that emit code leave in the output
markcomments ==
  { markcomment(m) : m \in { METRIC_PRE, METRIC_POST, METRIC_POST_PER_DOC,
                             METRIC_DECL, METRIC_PER_CALL, METRIC_PER_DOC,
                             METRIC_CONTRIB } }

\* the lines of the output that the marker m gave: those after its comment
\* and before the next marker's comment, the empty ones left out
section(m) ==
  LET out == outlines
      at == { i \in 1..Len(out) : out[i] = markcomment(m) }
      from == CHOOSE i \in at : \A j \in at : i <= j
      ahead == { i \in (from + 1)..Len(out) : out[i] \in markcomments }
      to == IF ahead = {} THEN Len(out) + 1
            ELSE CHOOSE i \in ahead : \A j \in ahead : i <= j
  IN  IF at = {} THEN << <<"missing">> >>
      ELSE SelectSeq(SubSeq(out, from + 1, to - 1), LAMBDA x : x # <<>>)

\* a run on a template that holds every marker once has ended
wovenall ==
  /\ pc = "exit"
  /\ parsed
  /\ argv.family = "S"
  /\ template # <<>>

\* C30: once the description is parsed every post statement has level 1 or
\* 2 and every decode statement level 1, 2 or 3; and when a run on a
\* template with every marker once has ended, METRIC_PER_CALL has given the
\* decode statements of level 1, METRIC_PER_DOC those of levels 2 and 3,
\* METRIC_POST (after the declarations) the post statements of level 1 and
\* METRIC_POST_PER_DOC those of level 2
C30_NoStatementLost ==
  /\ parsed =>
       /\ \A i \in 1..Len(post) : post[i].level \in {1, 2}
       /\ \A i \in 1..Len(decode) : decode[i].level \in {1, 2, 3}
  /\ wovenall =>
       /\ section(METRIC_PER_CALL) = atlevel(decode, 1, decode_decl)
       /\ section(METRIC_PER_DOC) = atlevel(decode, 2, decode_decl)
                                      \o atlevel(decode, 3, decode_decl)
       /\ endsin(section(METRIC_POST), atlevel(post, 1, post_decl))
       /\ section(METRIC_POST_PER_DOC) = atlevel(post, 2, post_decl)

=============================================================================
